---------------------------- MODULE Spec2Model ----------------------------
(***************************************************************************)
(* fixter (cmd-ai): the two LangGraph agent loops (ExtractionAgent,        *)
(* ConversationAgent), their tool-input normalizers and the session        *)
(* memory.                                                                 *)
(*                                                                         *)
(* Texts are sequences of tokens (words, labels, quotes, whitespace); the  *)
(* regular expressions and str methods of the source are computed on these *)
(* token sequences.                                                        *)
(*                                                                         *)
(* Graph execution follows langgraph's StateGraph semantics, which the     *)
(* source relies on:                                                       *)
(*   - a node receives a snapshot of the state and returns an update; each *)
(*     key of the update is written to its channel; a channel declared     *)
(*     Annotated[..., operator.add] (intermediate_steps) ADDS the update   *)
(*     to its value, every other channel is overwritten;                   *)
(*   - the function of a conditional edge reads a fresh snapshot; what it  *)
(*     assigns to a key of that snapshot is not written to any channel;    *)
(*   - app.invoke without a config runs at most recursion_limit = 25       *)
(*     supersteps (one node each here) and raises GraphRecursionError when *)
(*     a further one is needed.                                            *)
(***************************************************************************)
EXTENDS Integers, Sequences, FiniteSets, TLC

VARIABLES
    loop,           \* "extraction" | "conversation": the agent whose process() runs
    pc,             \* the node the graph is at, or "END" / "returned" / "raised"
    state,          \* the graph state: input, agent_outcome, intermediate_steps,
                    \* session_id, step_counter, reflections
    supersteps,     \* langgraph supersteps executed by app.invoke
    err,            \* the exception that left process(), "none" if none
    output,         \* what process() returned
    query,          \* the caller's query
    session,        \* the SessionMemory object of the run / under test
    now,            \* time.time(), a logical clock
    saved,          \* the session file on disk
    acts,           \* history: number of executions of _act_node
    toolCalls,      \* history: number of tool.invoke calls
    toolFailures,   \* history: number of tool.invoke calls that raised
    llmCalls,       \* history: number of LLM calls
    lastLLM,        \* history: what the last reasoning call produced
    llmInput,       \* history: the input text given to the last reasoning call
    reasonCalls,    \* history: number of executions of the reason node
    lastError,      \* history: str(e) of the last OutputParserException
    visitedFinish,  \* history: a router has selected the finish node
    allTurns,       \* history: every turn passed to add_conversation_turn
    entityOps,      \* history: the add_entity calls made on the session under test
    actLog,         \* history: the (action, observation) pair of every completed _act_node
    evidence,       \* history: the tool_results of the last synthesis prompt
    nrm,            \* normalizer under test: its input and its result
    sel,            \* Coordinator: the classifier's response and the agent selected
    fs,             \* the paths that exist on disk, with their kind
    pair            \* two runs of process() on one SessionManager

vars == <<loop, pc, state, supersteps, err, output, query, session, now, saved,
          acts, toolCalls, toolFailures, llmCalls, lastLLM, llmInput, reasonCalls, lastError,
          visitedFinish, allTurns, entityOps, actLog, evidence, nrm, sel, fs, pair>>

runVars == <<loop, pc, state, supersteps, err, output, query,
             acts, toolCalls, toolFailures, llmCalls, lastLLM, llmInput, reasonCalls, lastError,
             visitedFinish>>

sessVars == <<session, now, saved, allTurns, entityOps>>

---------------------------------------------------------------------------
(* Program constants *)

ExtractionBudget == 5
ConversationBudget == 10
HistoryCap == 20
RecursionLimit == 25

(* Bounds of the model *)

MaxTurns == 23
MaxEntityOps == 1
MaxEntityCalls == 3
MaxStart == 2
MaxPairSteps == 3
MaxRuns == 3
MaxHistSteps == 2

---------------------------------------------------------------------------
(* Texts as token sequences *)

NL == "\n"
SP == " "
DQ == "\""
SQ == "'"
BT == "BACKTICK"
ParseMarker == "Could not parse LLM output:"
LThought == "Thought:"
LAction == "Action:"
LActionInput == "Action Input:"
LObservation == "Observation:"
LFinal == "Final Answer:"

IsSpace(t) == t \in {SP, NL}

RECURSIVE LStrip(_, _)
LStrip(s, chars) ==
    IF s # <<>> /\ Head(s) \in chars THEN LStrip(Tail(s), chars) ELSE s

RECURSIVE RStrip(_, _)
RStrip(s, chars) ==
    IF s # <<>> /\ s[Len(s)] \in chars
    THEN RStrip(SubSeq(s, 1, Len(s) - 1), chars) ELSE s

\* str.strip()
Strip(s) == RStrip(LStrip(s, {SP, NL}), {SP, NL})

\* str.strip of the two quote characters
StripQuotes(s) == RStrip(LStrip(s, {DQ, SQ}), {DQ, SQ})

Positions(s, toks) == {i \in 1..Len(s) : s[i] \in toks}

Min(S) == CHOOSE x \in S : \A y \in S : x <= y
Max(S) == CHOOSE x \in S : \A y \in S : x >= y

\* str.split(sep)[-1]: what follows the last occurrence of sep
SplitLast(s, sep) ==
    IF Positions(s, {sep}) = {} THEN s
    ELSE SubSeq(s, Max(Positions(s, {sep})) + 1, Len(s))

\* first index >= i whose token is not whitespace (Len(s)+1 if none)
RECURSIVE SkipSpace(_, _)
SkipSpace(s, i) ==
    IF i <= Len(s) /\ IsSpace(s[i]) THEN SkipSpace(s, i + 1) ELSE i

\* re.search(r'Final Answer:\s*(.*?)(?:\n|$)', text, re.DOTALL).group(1):
\* from the first label, after the whitespace, up to the next newline or the end
FinalAnswerGroup(s) ==
    LET i == Min(Positions(s, {LFinal}))
        b == SkipSpace(s, i + 1)
        nls == {j \in b..Len(s) : s[j] = NL}
        e == IF nls = {} THEN Len(s) ELSE Min(nls) - 1
    IN  SubSeq(s, b, e)

\* re.sub(label + r'.*?(?=l1|l2|...|$)', '', text, flags=re.DOTALL): every
\* segment from a label up to the nearest following stop label (or the end)
RECURSIVE SubLabel(_, _, _)
SubLabel(s, label, stops) ==
    IF Positions(s, {label}) = {} THEN s
    ELSE LET i == Min(Positions(s, {label}))
             nxt == {j \in (i + 1)..Len(s) : s[j] \in stops}
             e == IF nxt = {} THEN Len(s) + 1 ELSE Min(nxt)
         IN  SubSeq(s, 1, i - 1) \o SubLabel(SubSeq(s, e, Len(s)), label, stops)

Labels == {LThought, LAction, LActionInput, LObservation}

ApologyParse == <<"I apologize, but I couldn't process that correctly. Please try asking in a different way.">>
ApologyConversation == <<"I've spent some time analyzing your request but couldn't reach a clear conclusion. Could you please clarify what you're looking for?">>
ApologyExtraction == <<"Extraction process reached maximum steps. Please refine your query.">>
LogMaxSteps == <<"Max steps reached">>
LogSynth == <<"Synthesized answer from repeated tool calls">>

---------------------------------------------------------------------------
(* Python values: tool inputs and normalized inputs *)

PyStr(toks) == [k |-> "str", toks |-> toks]
PyInt(n) == [k |-> "int", n |-> n]
PyBool(b) == [k |-> "bool", b |-> b]
PyList(items) == [k |-> "list", items |-> items]
PyDict(f) == [k |-> "dict", f |-> f]
PyNone == [k |-> "none"]

EmptyMap == [x \in {} |-> PyNone]

\* dict.get(key, default)
Get(d, key, default) == IF key \in DOMAIN d.f THEN d.f[key] ELSE default

\* dict.setdefault(key, default), as the resulting dict
SetDefault(d, key, default) ==
    IF key \in DOMAIN d.f THEN d ELSE PyDict(d.f @@ (key :> default))

Returned(v) == [raised |-> FALSE, value |-> v]
Raised(exc) == [raised |-> TRUE, exc |-> exc]

\* number tokens and their values
NumOf == ("5" :> 5) @@ ("7" :> 7) @@ ("12" :> 12)
\* JSON string tokens (the text between double quotes, quotes included) and their contents
JsonStrOf == ("\"limit\"" :> <<"limit">>) @@ ("\"format\"" :> <<"format">>)
             @@ ("\"query\"" :> <<"query">>) @@ ("\"input\"" :> <<"input">>)
             @@ ("\"entity_type\"" :> <<"entity_type">>)
             @@ ("\"directory\"" :> <<"directory">>) @@ ("\"git_url\"" :> <<"git_url">>)
             @@ ("\"%H:%M\"" :> <<"%H:%M">>) @@ ("\"file\"" :> <<"file">>)
             @@ ("\"/srv/app\"" :> <<"/srv/app">>)
\* words matched by [a-zA-Z_]+
AlphaWords == {"file", "repository", "limit", "entity_type", "recent"}

IsNum(t) == t \in DOMAIN NumOf
IsJsonStr(t) == t \in DOMAIN JsonStrOf

JsonScalar(t) == IF IsNum(t) THEN PyInt(NumOf[t]) ELSE PyStr(JsonStrOf[t])
IsJsonScalar(t) == IsNum(t) \/ IsJsonStr(t)

\* the members of a JSON object: "key" : scalar (, "key" : scalar)*
RECURSIVE JsonMembers(_)
JsonMembers(s) ==
    IF Len(s) >= 3 /\ IsJsonStr(s[1]) /\ s[2] = ":" /\ IsJsonScalar(s[3])
    THEN LET k == JsonStrOf[s[1]][1]
             rest == IF Len(s) = 3 THEN Returned(EmptyMap)
                     ELSE IF s[4] = "," THEN JsonMembers(SubSeq(s, 5, Len(s)))
                     ELSE Raised("JSONDecodeError")
         IN  IF rest.raised THEN rest
             ELSE Returned((k :> JsonScalar(s[3])) @@ rest.value)
    ELSE Raised("JSONDecodeError")

\* json.loads(text) on the JSON texts of the model: a number, a string, a
\* list of scalars, an object of scalars; anything else is a JSONDecodeError.
\* Leading and trailing whitespace is allowed by json.loads.
JsonLoads(toks) ==
    LET s == Strip(toks) IN
    IF Len(s) = 1 /\ IsJsonScalar(s[1]) THEN Returned(JsonScalar(s[1]))
    ELSE IF Len(s) >= 2 /\ s[1] = "[" /\ s[Len(s)] = "]"
              /\ \A i \in 2..(Len(s) - 1) : IsJsonScalar(s[i])
         THEN Returned(PyList([i \in 1..(Len(s) - 2) |-> JsonScalar(s[i + 1])]))
    ELSE IF s = <<"{", "}">> THEN Returned(PyDict(EmptyMap))
    ELSE IF Len(s) >= 2 /\ s[1] = "{" /\ s[Len(s)] = "}"
         THEN LET m == JsonMembers(SubSeq(s, 2, Len(s) - 1))
              IN  IF m.raised THEN m ELSE Returned(PyDict(m.value))
    ELSE Raised("JSONDecodeError")

\* int(text): optional sign and digits, surrounding whitespace allowed
ParseInt(toks) ==
    LET s == Strip(toks) IN
    IF Len(s) = 1 /\ IsNum(s[1]) THEN Returned(NumOf[s[1]])
    ELSE IF Len(s) = 2 /\ s[1] = "+" /\ IsNum(s[2]) THEN Returned(NumOf[s[2]])
    ELSE IF Len(s) = 2 /\ s[1] = "-" /\ IsNum(s[2]) THEN Returned(0 - NumOf[s[2]])
    ELSE Raised("ValueError")

\* re.search(name + r'\s*=\s*', s) matched at token i: index of the token after it, 0 if no match
AfterAssign(s, i, name) ==
    IF i <= Len(s) /\ s[i] = name
    THEN LET e == SkipSpace(s, i + 1)
         IN  IF e <= Len(s) /\ s[e] = "=" THEN SkipSpace(s, e + 1) ELSE 0
    ELSE 0

\* re.search(r'limit\s*=\s*(\d+)', s): group(1) of the first match, as a set (empty if no match)
LimitMatch(s) ==
    LET hits == {i \in 1..Len(s) :
                    LET a == AfterAssign(s, i, "limit")
                    IN  a # 0 /\ a <= Len(s) /\ IsNum(s[a])}
    IN  IF hits = {} THEN {} ELSE {NumOf[s[AfterAssign(s, Min(hits), "limit")]]}

\* re.search(r'entity_type\s*=\s*["\x27]?([a-zA-Z_]+)["\x27]?', s): group(1) of the first match
EntityTypeMatch(s) ==
    LET word(i) == LET a == AfterAssign(s, i, "entity_type")
                       b == IF a # 0 /\ a <= Len(s) /\ s[a] \in {DQ, SQ} THEN a + 1 ELSE a
                   IN  IF a # 0 /\ b <= Len(s) /\ s[b] \in AlphaWords THEN b ELSE 0
        hits == {i \in 1..Len(s) : word(i) # 0}
    IN  IF hits = {} THEN {} ELSE {s[word(Min(hits))]}

---------------------------------------------------------------------------
(* The tool registry and the two tool subsets *)

ALL_TOOLS == {"extract_git_content", "extract_content_local",
              "list_memory_sessions", "clear_memory_session",
              "get_conversation_history", "get_memory_entities",
              "get_system_time", "tavily_search_results_json"}

extraction_tools == {t \in ALL_TOOLS : t \in {"extract_content_local", "extract_git_content"}}
conversation_tools == {t \in ALL_TOOLS : t \notin {"extract_content_local", "extract_git_content"}}

\* mutant: both loops are given the whole registry
tool_map_WholeRegistry(l) == ALL_TOOLS

tool_map(l) == IF l = "extraction" THEN extraction_tools ELSE conversation_tools

---------------------------------------------------------------------------
(* ConversationAgent._parse_tool_input *)

Falsy(v) ==
    \/ v.k = "none"
    \/ v.k = "str" /\ v.toks = <<>>
    \/ v.k = "int" /\ v.n = 0
    \/ v.k = "bool" /\ ~v.b
    \/ v.k = "list" /\ v.items = <<>>
    \/ v.k = "dict" /\ DOMAIN v.f = {}

DefaultTimeFormat == <<"%Y-%m-%d", SP, "%H:%M:%S">>

\* the except JSONDecodeError branch: per-tool heuristics on the raw text
ConvHeuristic(tool_name, toks) ==
    IF tool_name = "get_system_time"
    THEN Returned(PyDict("format" :> PyStr(StripQuotes(Strip(toks)))))
    ELSE IF tool_name = "tavily_search_results_json"
    THEN Returned(PyDict("query" :> PyStr(StripQuotes(Strip(toks)))))
    ELSE IF tool_name = "get_conversation_history"
    THEN LET n == ParseInt(toks)
             m == LimitMatch(toks)
             limit == IF ~n.raised THEN n.value
                      ELSE IF m # {} THEN CHOOSE x \in m : TRUE ELSE 5
         IN  Returned(PyDict("limit" :> PyInt(limit)))
    ELSE IF tool_name = "get_memory_entities"
    THEN LET e == EntityTypeMatch(toks)
             m == LimitMatch(toks)
             entity_type == IF e # {} THEN <<CHOOSE x \in e : TRUE>> ELSE <<>>
             limit == IF m # {} THEN CHOOSE x \in m : TRUE ELSE 5
         IN  Returned(PyDict(("entity_type" :> PyStr(entity_type))
                             @@ ("limit" :> PyInt(limit))))
    ELSE Returned(PyDict("input" :> PyStr(StripQuotes(Strip(toks)))))

\* lines 401-416: the input is whatever json.loads gave, or the non-str input itself
ConvStructured(tool_name, v) ==
    IF tool_name = "get_system_time"
    THEN IF v.k # "dict" THEN Raised("AttributeError")
         ELSE LET f == Get(v, "format", PyStr(DefaultTimeFormat))
              IN  IF f.k # "str" THEN Raised("AttributeError")
                  ELSE Returned(PyDict("format" :> PyStr(StripQuotes(Strip(f.toks)))))
    ELSE IF tool_name = "tavily_search_results_json"
    THEN IF v.k # "dict" THEN Raised("AttributeError")
         ELSE LET q1 == Get(v, "query", PyNone)
                  q == IF Falsy(q1) THEN Get(v, "input", PyNone) ELSE q1
              IN  IF q.k # "str" THEN Raised("AttributeError")
                  ELSE Returned(PyDict("query" :> PyStr(StripQuotes(Strip(q.toks)))))
    ELSE IF tool_name = "get_conversation_history"
    THEN IF v.k \in {"int", "bool"} THEN Returned(PyDict("limit" :> v))
         ELSE IF v.k # "dict" THEN Raised("AttributeError")
         ELSE Returned(PyDict("limit" :> Get(v, "limit", PyInt(5))))
    ELSE IF tool_name = "get_memory_entities"
    THEN IF v.k # "dict" THEN Raised("AttributeError")
         ELSE Returned(PyDict(("entity_type" :> Get(v, "entity_type", PyStr(<<>>)))
                              @@ ("limit" :> Get(v, "limit", PyInt(5)))))
    ELSE Returned(v)

ConvParseToolInput(tool_name, tool_input) ==
    IF tool_input.k = "str"
    THEN LET j == JsonLoads(tool_input.toks)
         IN  IF j.raised THEN ConvHeuristic(tool_name, tool_input.toks)
             ELSE ConvStructured(tool_name, j.value)
    ELSE ConvStructured(tool_name, tool_input)

---------------------------------------------------------------------------
(* ExtractionAgent._parse_tool_input, _parse_local_input, _parse_git_input *)

\* Texts of the model separate words by whitespace tokens, so a regular
\* expression match never spans two word tokens.  Per token: what
\* r'/[\w/\.-]+' matches in it (empty if nothing) ...
PathIn == ("/srv/app" :> <<"/srv/app">>)
          @@ ("/srv/app/main.py" :> <<"/srv/app/main.py">>)
          @@ ("https://github.com/acme/widgets" :> <<"//github.com/acme/widgets">>)
\* ... and every match of r'\.[a-zA-Z]+' in it, in order
ExtsIn == (".py" :> <<".py">>) @@ (".js" :> <<".js">>)
          @@ ("/srv/app/main.py" :> <<".py">>)
          @@ ("https://github.com/acme/widgets" :> <<".com">>)
\* tokens in which r'https?://' matches (at their start)
UrlTokens == {"https://github.com/acme/widgets"}

RECURSIVE FindAllExts(_)
FindAllExts(s) ==
    IF s = <<>> THEN <<>>
    ELSE (IF Head(s) \in DOMAIN ExtsIn
          THEN [i \in 1..Len(ExtsIn[Head(s)]) |-> PyStr(<<ExtsIn[Head(s)][i]>>)]
          ELSE <<>>) \o FindAllExts(Tail(s))

_parse_local_input(input_str) ==
    LET hits == {i \in 1..Len(input_str) : input_str[i] \in DOMAIN PathIn}
        directory == IF hits # {} THEN PathIn[input_str[Min(hits)]] ELSE Strip(input_str)
        ext_match == FindAllExts(input_str)
        extensions == IF ext_match # <<>> THEN ext_match ELSE <<PyStr(<<".py">>)>>
    IN  PyDict(("directory" :> PyStr(directory)) @@ ("extensions" :> PyList(extensions)))

\* r'https?://[^\s]+' runs from the URL token to the next whitespace
_parse_git_input(input_str) ==
    LET hits == {i \in 1..Len(input_str) : input_str[i] \in UrlTokens}
        b == Min(hits)
        sp == {j \in b..Len(input_str) : IsSpace(input_str[j])}
        e == IF sp = {} THEN Len(input_str) ELSE Min(sp) - 1
        git_url == IF hits # {} THEN SubSeq(input_str, b, e) ELSE Strip(input_str)
        ext_match == FindAllExts(input_str)
    IN  PyDict(("git_url" :> PyStr(git_url)) @@ ("extensions" :> PyList(ext_match)))

\* lines 185-193: the tool-specific defaults
ExtDefaults(tool_name, parsed_input) ==
    IF tool_name = "extract_content_local"
    THEN IF parsed_input.k # "dict" THEN Raised("AttributeError")
         ELSE Returned(SetDefault(SetDefault(parsed_input,
                  "extensions", PyList(<<PyStr(<<".py">>)>>)),
                  "clipboard_only", PyBool(FALSE)))
    ELSE IF tool_name = "extract_git_content"
    THEN IF parsed_input.k # "dict" THEN Raised("AttributeError")
         ELSE Returned(SetDefault(SetDefault(SetDefault(parsed_input,
                  "extensions", PyList(<<>>)),
                  "clone", PyBool(FALSE)),
                  "clipboard_only", PyBool(TRUE)))
    ELSE Returned(parsed_input)

ExtParseToolInput(tool_name, tool_input) ==
    IF tool_input.k = "dict" THEN Returned(tool_input)
    ELSE IF tool_input.k = "str"
    THEN LET j == JsonLoads(tool_input.toks)
             parsed_input ==
                 IF ~j.raised THEN j.value
                 ELSE IF tool_name = "extract_content_local"
                      THEN _parse_local_input(tool_input.toks)
                 ELSE IF tool_name = "extract_git_content"
                      THEN _parse_git_input(tool_input.toks)
                 ELSE PyDict("input" :> PyStr(tool_input.toks))
         IN  ExtDefaults(tool_name, parsed_input)
    ELSE Raised("UnboundLocalError")

_parse_tool_input(l, tool_name, tool_input) ==
    IF l = "extraction" THEN ExtParseToolInput(tool_name, tool_input)
    ELSE ConvParseToolInput(tool_name, tool_input)

---------------------------------------------------------------------------
(* SessionMemory *)

NoTask == [description |-> <<>>]

\* SessionMemory(session_id=...)
NewSession(sid, t) ==
    [session_id |-> sid, created_at |-> t, last_accessed |-> t,
     conversation_history |-> <<>>, entities |-> EmptyMap, active_task |-> NoTask]

update_access_time(s, t) == [s EXCEPT !.last_accessed = t]

\* list[-n:]
LastN(seq, n) == IF Len(seq) > n THEN SubSeq(seq, Len(seq) - n + 1, Len(seq)) ELSE seq

\* mutant: the cap keeps the oldest turns
add_conversation_turn_KeepsOldest(s, t, q, response) ==
    LET turn == [timestamp |-> t, query |-> q, response |-> response]
        appended == Append(s.conversation_history, turn)
    IN  [update_access_time(s, t) EXCEPT
            !.conversation_history =
                IF Len(appended) > HistoryCap THEN SubSeq(appended, 1, HistoryCap)
                ELSE appended]

add_conversation_turn(s, t, q, response) ==
    LET turn == [timestamp |-> t, query |-> q, response |-> response]
        appended == Append(s.conversation_history, turn)
    IN  [update_access_time(s, t) EXCEPT
            !.conversation_history =
                IF Len(appended) > HistoryCap THEN LastN(appended, HistoryCap)
                ELSE appended]

\* f"{entity_type}:{value}"
EntityKey(entity_type, value) == <<entity_type, ":">> \o value

\* EntityInfo(type=..., value=..., last_mentioned=time.time(), metadata=metadata or {})
EntityInfo(t, entity_type, value, metadata) ==
    [type |-> entity_type, value |-> value, last_mentioned |-> t,
     metadata |-> IF Falsy(metadata) THEN PyDict(EmptyMap) ELSE metadata]

\* mutant: an entry that is already there is kept as it is
add_entity_KeepsExisting(s, t, entity_type, value, metadata) ==
    [update_access_time(s, t) EXCEPT
        !.entities = s.entities @@ (EntityKey(entity_type, value)
                                      :> EntityInfo(t, entity_type, value, metadata))]

\* self.entities[key] = EntityInfo(...); self.update_access_time()
add_entity(s, t, entity_type, value, metadata) ==
    [update_access_time(s, t) EXCEPT
        !.entities = (EntityKey(entity_type, value)
                        :> EntityInfo(t, entity_type, value, metadata)) @@ s.entities]

\* Per word token of a query, the matches of the four regular expressions of
\* extract_entities_from_query, in order:
\* r'/[\w/\.-]+\.\w+'
FilePathsIn == ("/home/user/project/app.py" :> <<"/home/user/project/app.py">>)
               @@ ("https://github.com/acme/widgets" :> <<"//github.com">>)
\* r'/[\w/\.-]+/?'
DirPathsIn == ("/home/user/project/app.py" :> <<"/home/user/project/app.py">>)
              @@ ("https://github.com/acme/widgets" :> <<"//github.com/acme/widgets">>)
\* r'(?:github\.com/|https://github\.com/)[\w-]+/[\w-]+'
ReposIn == ("https://github.com/acme/widgets" :> <<"https://github.com/acme/widgets">>)
\* r'\.([a-zA-Z0-9]+)\b', the groups of at most 5 characters, with their dot
ExtensionsIn == ("/home/user/project/app.py" :> <<".py">>)
                @@ ("https://github.com/acme/widgets" :> <<".com">>)

\* re.findall over the query: the matches of every token, in order
RECURSIVE FindAllIn(_, _)
FindAllIn(table, q) ==
    IF q = <<>> THEN <<>>
    ELSE (IF Head(q) \in DOMAIN table THEN table[Head(q)] ELSE <<>>)
         \o FindAllIn(table, Tail(q))

\* os.path.exists(path), os.path.isdir(path)
PathExists(disk, path) == path \in DOMAIN disk
PathIsDir(disk, path) == path \in DOMAIN disk /\ disk[path] = "dir"

\* the add_entity calls of extract_entities_from_query, in order
EntityCalls(q, disk) ==
    LET file_paths == FindAllIn(FilePathsIn, q)
        dir_paths == FindAllIn(DirPathsIn, q)
        repos == FindAllIn(ReposIn, q)
        extensions == FindAllIn(ExtensionsIn, q)
    IN  [i \in 1..Len(SelectSeq(file_paths, LAMBDA x : PathExists(disk, x))) |->
            [type |-> "file",
             value |-> <<SelectSeq(file_paths, LAMBDA x : PathExists(disk, x))[i]>>,
             metadata |-> PyDict("exists" :> PyBool(TRUE))]]
        \o [i \in 1..Len(SelectSeq(dir_paths, LAMBDA x : PathIsDir(disk, x))) |->
            [type |-> "directory",
             value |-> <<SelectSeq(dir_paths, LAMBDA x : PathIsDir(disk, x))[i]>>,
             metadata |-> PyDict("exists" :> PyBool(TRUE))]]
        \o [i \in 1..Len(repos) |->
            [type |-> "repository", value |-> <<repos[i]>>, metadata |-> PyNone]]
        \o [i \in 1..Len(extensions) |->
            [type |-> "extension", value |-> <<extensions[i]>>, metadata |-> PyNone]]

\* the calls applied one after the other, the clock advancing with each
RECURSIVE AddEntities(_, _, _)
AddEntities(s, t, calls) ==
    IF calls = <<>> THEN s
    ELSE AddEntities(add_entity(s, t, Head(calls).type, Head(calls).value,
                                Head(calls).metadata),
                     t + 1, Tail(calls))

\* SessionMemory.extract_entities_from_query
extract_entities_from_query(s, t, q, disk) == AddEntities(s, t, EntityCalls(q, disk))

---------------------------------------------------------------------------
(* Graph state, outcomes and langgraph's channel writes *)

AgentAction(tool, tool_input) == [type |-> "action", tool |-> tool, tool_input |-> tool_input]
AgentFinish(out, log) == [type |-> "finish", output |-> out, log |-> log]
NoOutcome == [type |-> "none"]

Budget(l) == IF l = "extraction" THEN ExtractionBudget ELSE ConversationBudget

MaxStepsFinish(l) ==
    AgentFinish(IF l = "extraction" THEN ApologyExtraction ELSE ApologyConversation,
                LogMaxSteps)

\* mutant: every channel keeps the last value written
ApplyUpdate_LastValue(st, upd) ==
    [key \in DOMAIN st |-> IF key \notin DOMAIN upd THEN st[key] ELSE upd[key]]

\* A node's update is written key by key: intermediate_steps is declared
\* Annotated[List[...], operator.add], so its update is added to the channel;
\* the other keys are last-value channels.
ApplyUpdate(st, upd) ==
    [key \in DOMAIN st |->
        IF key \notin DOMAIN upd THEN st[key]
        ELSE IF key = "intermediate_steps" THEN st[key] \o upd[key]
        ELSE upd[key]]

NodeReturned(upd) == [raised |-> FALSE, update |-> upd]

---------------------------------------------------------------------------
(* _reason_node *)

\* str(e).split("Could not parse LLM output:")[-1].strip()
UnparsedText(error_text) == Strip(SplitLast(error_text, ParseMarker))

\* ConversationAgent._reason_node, lines 196-215
ConvRecover(error_text) ==
    LET t0 == UnparsedText(error_text)
        t1 == IF Positions(t0, {LFinal}) # {} THEN Strip(FinalAnswerGroup(t0))
              ELSE IF Positions(t0, Labels) = {} THEN t0
              ELSE SubLabel(SubLabel(SubLabel(SubLabel(t0,
                       LThought, {LAction, LObservation, LFinal}),
                       LAction, {LObservation, LFinal}),
                       LActionInput, {LObservation, LFinal}),
                       LObservation, {LThought, LAction, LFinal})
        output_text == IF Strip(t1) = <<>> THEN ApologyParse ELSE t1
    IN  AgentFinish(output_text, output_text)

\* ExtractionAgent._reason_node, lines 99-106
ExtRecover(error_text) ==
    LET output_text == UnparsedText(error_text)
    IN  AgentFinish(output_text, output_text)

\* mutant: the OutputParserException is not caught
OnParseFailure_Propagates(l, error_text) == Raised("OutputParserException")

\* the except OutputParserException branch of either agent
OnParseFailure(l, error_text) ==
    NodeReturned([agent_outcome |->
        IF l = "extraction" THEN ExtRecover(error_text) ELSE ConvRecover(error_text)])

LLMAnswer == <<"answer">>
LLMLog == <<"Final Answer:", SP, "answer">>

\* llm: what agent_runnable.invoke did (an action, a final answer, an
\* OutputParserException with its message, or another exception)
ReasonNode(l, st, llm) ==
    IF llm.kind = "action"
    THEN NodeReturned([agent_outcome |-> AgentAction(llm.tool, llm.tool_input)])
    ELSE IF llm.kind = "finish"
    THEN NodeReturned([agent_outcome |-> AgentFinish(LLMAnswer, LLMLog)])
    ELSE IF llm.kind = "unparsed"
    THEN OnParseFailure(l, llm.error_text)
    ELSE Raised("LLMError")

\* mutant: the budget test is off by one
ShouldContinue_OffByOne(l, st) ==
    IF st.step_counter > Budget(l)
    THEN [route |-> "finish", state |-> [st EXCEPT !.agent_outcome = MaxStepsFinish(l)]]
    ELSE IF st.agent_outcome.type = "finish"
    THEN [route |-> "finish", state |-> st]
    ELSE [route |-> "act", state |-> st]

\* _should_continue: the route, and the snapshot as the function leaves it
ShouldContinue(l, st) ==
    IF st.step_counter >= Budget(l)
    THEN [route |-> "finish", state |-> [st EXCEPT !.agent_outcome = MaxStepsFinish(l)]]
    ELSE IF st.agent_outcome.type = "finish"
    THEN [route |-> "finish", state |-> st]
    ELSE [route |-> "act", state |-> st]

\* mutant: the router does not look at the outcome
PostReflectionRouter_AlwaysAct(st) == "act"

\* _post_reflection_router
PostReflectionRouter(st) ==
    IF st.agent_outcome.type = "finish" THEN "finish" ELSE "act"

\* mutant: both graphs map "act" to the reflect node
ReasonEdge_AlwaysReflect(l, route) ==
    IF route = "finish" THEN "finish" ELSE "reflect"

\* add_conditional_edges: the conversation graph maps "act" to the reflect
\* node; the extraction graph takes the route as the node name
ReasonEdge(l, route) ==
    IF route = "finish" THEN "finish"
    ELSE IF l = "conversation" THEN "reflect" ELSE "act"

---------------------------------------------------------------------------
(* _reflect_node and _synthesize_from_tools *)

Critique == <<"critique">>
SynthAnswer == <<"synthesized">>

\* texts of the model longer than 1000 characters, with their first 1000
Prefix1000 == ("LONG RESULT" :> "LONG RESULT[:1000]")

\* result[:1000]
Truncate1000(result) ==
    IF Len(result) = 1 /\ result[1] \in DOMAIN Prefix1000
    THEN <<Prefix1000[result[1]]>> ELSE result

\* _synthesize_from_tools, lines 422-427: the tool_results put in the prompt
ToolResults(intermediate_steps) ==
    [i \in 1..Len(intermediate_steps) |->
        [tool |-> intermediate_steps[i].action.tool,
         result |-> Truncate1000(intermediate_steps[i].observation)]]

\* mutant: the critique and the hints are put after the input
EfficiencyInput_Appends(reflection, original_input) ==
    <<"Original query:">> \o original_input \o
    <<"Your previous approach has taken multiple steps without reaching a conclusion.",
      "Reflection:">> \o reflection \o
    <<"Please reconsider your strategy. Consider whether you can:",
      "1. Answer directly from existing information",
      "2. Use a different tool that might be more effective",
      "3. Break down the problem differently">>

\* lines 292-304: enhanced_input
EfficiencyInput(reflection, original_input) ==
    <<"Your previous approach has taken multiple steps without reaching a conclusion.",
      "Reflection:">> \o reflection \o
    <<"Please reconsider your strategy. Consider whether you can:",
      "1. Answer directly from existing information",
      "2. Use a different tool that might be more effective",
      "3. Break down the problem differently",
      "Original query:">> \o original_input

\* mutant: a loop is seen only when the whole window names one tool
IsPotentialLoop_WholeWindow(tool_sequence) ==
    Len(tool_sequence) >= 2
    /\ \A i \in 1..Len(tool_sequence) : tool_sequence[i] = tool_sequence[1]

\* len(tool_sequence) >= 2 and len(set(tool_sequence[-2:])) == 1
IsPotentialLoop(tool_sequence) ==
    Len(tool_sequence) >= 2
    /\ tool_sequence[Len(tool_sequence)] = tool_sequence[Len(tool_sequence) - 1]

\* mutant: the synthesis starts one step earlier
ShouldSynthesize_AtThree(current_steps, tool_sequence) ==
    current_steps > 2
    /\ Cardinality({tool_sequence[i] : i \in 1..Len(tool_sequence)}) = 1

\* mutant: the synthesis starts one step later
ShouldSynthesize_AtFive(current_steps, tool_sequence) ==
    current_steps > 4
    /\ Cardinality({tool_sequence[i] : i \in 1..Len(tool_sequence)}) = 1

\* current_steps > 3 and len(set(tool_sequence)) == 1
ShouldSynthesize(current_steps, tool_sequence) ==
    current_steps > 3
    /\ Cardinality({tool_sequence[i] : i \in 1..Len(tool_sequence)}) = 1

\* failAt: which LLM call of this execution raises (0: none).  The node
\* returns the whole state, so every key is written back.
ReflectNode(st, sess, t, failAt) ==
    LET current_steps == st.step_counter
        intermediate == st.intermediate_steps
        s0 == update_access_time(sess, t)
        noop == [raised |-> FALSE, update |-> st, session |-> s0, calls |-> 0, synth |-> FALSE]
    IN
    IF st.agent_outcome.type = "finish" THEN noop
    ELSE IF current_steps < 2 \/ Len(intermediate) < 2 THEN noop
    ELSE
    LET last3 == LastN(intermediate, 3)
        tool_sequence == [i \in 1..Len(last3) |-> last3[i].action.tool]
        n == Len(tool_sequence)
        repeated == IsPotentialLoop(tool_sequence)
        s1 == IF repeated
              THEN add_entity(s0, t, "reflection",
                       <<"Reflection at step", ToString(current_steps)>>,
                       PyDict(("content" :> PyStr(Critique))
                              @@ ("tool_sequence" :>
                                    PyList([i \in 1..n |-> PyStr(<<tool_sequence[i]>>)]))))
              ELSE s0
        r1 == IF repeated
              THEN Append(st.reflections,
                       [step |-> current_steps, type |-> "loop_detection", content |-> Critique])
              ELSE st.reflections
        synth == repeated /\ ShouldSynthesize(current_steps, tool_sequence)
        o2 == IF synth THEN AgentFinish(SynthAnswer, LogSynth) ELSE st.agent_outcome
        c2 == (IF repeated THEN 1 ELSE 0) + (IF synth THEN 1 ELSE 0)
        efficiency == current_steps > 5 /\ o2.type # "finish"
        s3 == IF efficiency
              THEN add_entity(s1, t, "reflection",
                       <<"Efficiency reflection at step", ToString(current_steps)>>,
                       PyDict("content" :> PyStr(Critique)))
              ELSE s1
        r3 == IF efficiency
              THEN Append(r1,
                       [step |-> current_steps, type |-> "efficiency", content |-> Critique])
              ELSE r1
        i3 == IF efficiency THEN EfficiencyInput(Critique, st.input) ELSE st.input
        c3 == c2 + (IF efficiency THEN 1 ELSE 0)
    IN
    IF repeated /\ failAt = 1
    THEN [raised |-> TRUE, exc |-> "LLMError", session |-> s0, calls |-> 1]
    ELSE IF synth /\ failAt = 2
    THEN [raised |-> TRUE, exc |-> "LLMError", session |-> s1, calls |-> 2]
    ELSE IF efficiency /\ failAt = c2 + 1
    THEN [raised |-> TRUE, exc |-> "LLMError", session |-> s1, calls |-> c2 + 1]
    ELSE [raised |-> FALSE,
          update |-> [st EXCEPT !.reflections = r3, !.agent_outcome = o2, !.input = i3],
          session |-> s3, calls |-> c3, synth |-> synth]

---------------------------------------------------------------------------
(* _act_node and _finish_node *)

NotFoundMessage(l, tool_name) ==
    IF l = "extraction"
    THEN <<"Tool '", tool_name, "' not found in extraction tools">>
    ELSE <<"Tool '", tool_name, "' not found in conversation tools. Available tools: ",
           "list(tool_map.keys())">>

\* mutant: the unknown-tool return leaves out step_counter
NotFoundUpdate_NoCounter(l, agent_action, sc) ==
    [intermediate_steps |-> <<[action |-> agent_action,
                               observation |-> NotFoundMessage(l, agent_action.tool)]>>]

\* the unknown-tool return
NotFoundUpdate(l, agent_action, sc) ==
    [intermediate_steps |-> <<[action |-> agent_action,
                               observation |-> NotFoundMessage(l, agent_action.tool)]>>,
     step_counter |-> sc]

\* str(tool_result): the search tool gives a text of more than 1000
\* characters, the other tools a short one
ToolResult(tool_name) ==
    IF tool_name = "tavily_search_results_json" THEN <<"LONG RESULT">>
    ELSE <<"result of", tool_name>>

\* memory_tools.session_manager.get_session(): the tools call it without an
\* id on the SessionManager of their own module (memory_tools.py line 7), so
\* _generate_terminal_id() names the session by the parent process and the
\* current second.  No run's session has that id, it is neither loaded nor
\* on disk, and get_session makes a new SessionMemory for it.
TerminalSession == NewSession("terminal", 0)

NoHistoryMessage == <<"No conversation history found in the current session.">>

\* memory_tools.get_conversation_history; with turns to show, line 60 calls
\* datetime.fromtimestamp on the module datetime
get_conversation_history(sess, limit) ==
    LET history == IF limit > 0 THEN LastN(sess.conversation_history, limit)
                   ELSE sess.conversation_history
    IN  IF history = <<>> THEN Returned(NoHistoryMessage) ELSE Raised("AttributeError")

\* memory_tools.get_memory_entities, for a session without entities
get_memory_entities(sess, entity_type) ==
    IF DOMAIN sess.entities = {}
    THEN Returned(IF entity_type = <<>>
                  THEN <<"No entities", " found in the current session memory.">>
                  ELSE <<"No entities", " of type '">> \o entity_type
                       \o <<"'", " found in the current session memory.">>)
    ELSE Returned(<<"Recent entities in memory:">>)

\* mutant: a failure of the tool is caught and becomes its result
ToolInvoke_Swallows(tool_name, filtered_input, fails) ==
    IF fails THEN Returned(<<"error in", tool_name>>) ELSE Returned(ToolResult(tool_name))

\* tool_map[tool_name].invoke(filtered_input); fails: the tool raises
ToolInvoke(tool_name, filtered_input, fails) ==
    IF fails THEN Raised("ToolError")
    ELSE IF tool_name = "get_conversation_history" /\ filtered_input.f["limit"].k = "int"
    THEN get_conversation_history(TerminalSession, filtered_input.f["limit"].n)
    ELSE IF tool_name = "get_memory_entities" /\ filtered_input.f["entity_type"].k = "str"
    THEN get_memory_entities(TerminalSession, filtered_input.f["entity_type"].toks)
    ELSE Returned(ToolResult(tool_name))

\* mutant: the act node also writes the tool's result as the input
ActObserve_WritesInput(agent_action, sc, tool_result) ==
    IF tool_result.raised
    THEN [raised |-> TRUE, exc |-> tool_result.exc, invoked |-> TRUE]
    ELSE [raised |-> FALSE,
          update |-> [intermediate_steps |-> <<[action |-> agent_action,
                                                observation |-> tool_result.value]>>,
                      step_counter |-> sc,
                      input |-> tool_result.value],
          invoked |-> TRUE]

\* lines 333-341: the (action, result) pair and the counter
ActObserve(agent_action, sc, tool_result) ==
    IF tool_result.raised
    THEN [raised |-> TRUE, exc |-> tool_result.exc, invoked |-> TRUE]
    ELSE [raised |-> FALSE,
          update |-> [intermediate_steps |-> <<[action |-> agent_action,
                                                observation |-> tool_result.value]>>,
                      step_counter |-> sc],
          invoked |-> TRUE]

\* lines 326-328: the tool is invoked on the normalized input, if there is one
ActInvoke(agent_action, sc, filtered_input, fails) ==
    IF filtered_input.raised
    THEN [raised |-> TRUE, exc |-> filtered_input.exc, invoked |-> FALSE]
    ELSE ActObserve(agent_action, sc,
                    ToolInvoke(agent_action.tool, filtered_input.value, fails))

\* invoked: whether a tool was invoked
ActNode(l, st, fails) ==
    LET sc == st.step_counter + 1
        agent_action == st.agent_outcome
    IN
    IF agent_action.type = "none"
    THEN [raised |-> FALSE, update |-> [intermediate_steps |-> <<>>], invoked |-> FALSE]
    ELSE IF agent_action.type = "finish"
    THEN [raised |-> TRUE, exc |-> "AttributeError", invoked |-> FALSE]
    ELSE IF agent_action.tool \notin tool_map(l)
    THEN [raised |-> FALSE, update |-> NotFoundUpdate(l, agent_action, sc), invoked |-> FALSE]
    ELSE ActInvoke(agent_action, sc,
                   _parse_tool_input(l, agent_action.tool, agent_action.tool_input), fails)

\* _finish_node returns the state it was given
FinishNode(st) == NodeReturned(st)

---------------------------------------------------------------------------
(* process(): context injection, app.invoke, write-back *)

\* words of the model in which one of the context references of
\* _enhance_with_memory ("previous", "that", "it", ...) occurs as a substring
ContextWords == {"it", "that", "again", "with"}

\* responses of the model longer than 150 characters, with their first 150
Prefix150 == ("LONG RESPONSE" :> "LONG RESPONSE[:150]")

Shorten(response) ==
    IF Len(response) = 1 /\ response[1] \in DOMAIN Prefix150
    THEN <<Prefix150[response[1]], "...">> ELSE response

RECURSIVE TurnLines(_)
TurnLines(history) ==
    IF history = <<>> THEN <<>>
    ELSE LET turn == Head(history)
         IN  (<<NL, "- You: ">> \o turn.query)
             \o (IF turn.response # <<>>
                 THEN <<NL, "- Assistant: ">> \o Shorten(turn.response) ELSE <<>>)
             \o TurnLines(Tail(history))

\* sorted(entities, key=last_mentioned, reverse=True)[:limit], all types
RECURSIVE RecentOf(_, _, _)
RecentOf(entities, keys, limit) ==
    IF keys = {} \/ limit = 0 THEN <<>>
    ELSE LET k == CHOOSE x \in keys :
                     \A y \in keys : entities[x].last_mentioned >= entities[y].last_mentioned
         IN  <<entities[k]>> \o RecentOf(entities, keys \ {k}, limit - 1)

get_recent_entities(s, limit) == RecentOf(s.entities, DOMAIN s.entities, limit)

RECURSIVE EntityLines(_)
EntityLines(es) ==
    IF es = <<>> THEN <<>>
    ELSE (<<NL, "- ", Head(es).type, ": ">> \o Head(es).value) \o EntityLines(Tail(es))

\* ConversationAgent._enhance_with_memory, the text it returns
_enhance_with_memory(q, s) ==
    LET has_context_reference == \E i \in 1..Len(q) : q[i] \in ContextWords
        history == LastN(s.conversation_history, 3)
        entities == get_recent_entities(s, 5)
        parts == (IF history # <<>> THEN <<"Recent conversation:">> \o TurnLines(history) ELSE <<>>)
                 \o (IF entities # <<>>
                     THEN <<NL, NL, "Recently mentioned:">> \o EntityLines(entities) ELSE <<>>)
                 \o (IF s.active_task # NoTask
                     THEN <<NL, NL, "Current task:", NL, "- ">> \o s.active_task.description
                     ELSE <<>>)
    IN  IF (has_context_reference \/ Len(s.conversation_history) > 0) /\ parts # <<>>
        THEN <<"Context from memory:", NL>> \o parts \o <<NL, NL, "Current query: ">> \o q
        ELSE q

\* SessionManager.save_session
save_session(s) == [status |-> "ok", data |-> s]
NoFile == [status |-> "none"]

Loops == {"extraction", "conversation"}
Queries == {<<"hello">>,
            <<"read", SP, "/home/user/project/app.py", SP, "and", SP,
              "https://github.com/acme/widgets">>}

NoDisk == EmptyMap

\* what can be on disk: nothing, or the file of the second query
Disks == {NoDisk, ("/home/user/project/app.py" :> "file")}
SessionIds == {"s1"}
PriorTurn == [timestamp |-> 0, query |-> <<"earlier">>, response |-> <<"reply">>]

\* the sessions a run can find: a new one, or one with an earlier turn
StartSessions(sid) ==
    {NewSession(sid, 0),
     [NewSession(sid, 0) EXCEPT !.conversation_history = <<PriorTurn>>]}

\* what the reasoning component can do in one call
\* the actions it proposes: two tools of the conversation loop, one with an
\* input that is no JSON and one with an input that is JSON for a number, and
\* a tool of the extraction loop with a path; each is an unknown tool for the
\* other loop
LLMActions ==
    {[tool |-> "tavily_search_results_json", tool_input |-> PyStr(<<"file">>)],
     [tool |-> "get_system_time", tool_input |-> PyStr(<<"5">>)],
     [tool |-> "extract_content_local", tool_input |-> PyStr(<<"/srv/app">>)]}
ErrorTexts ==
    {<<ParseMarker, SP, BT, "plain", SP, "words", BT>>,
     <<ParseMarker, SP, BT, LThought, SP, "thinking", BT>>,
     <<"Parsing LLM output produced both a final answer and a parse-able action::", SP,
       LThought, SP, "t", NL, LAction, SP, "get_system_time", NL, LActionInput, SP, "x", NL,
       LFinal, SP, "first", SP, "line", NL, "second">>,
     <<"Parsing LLM output produced both a final answer and a parse-able action::", SP,
       LAction, SP, "get_system_time", NL, LActionInput, SP, "x", NL, LFinal>>}

LLMOutputs ==
    {[kind |-> "action", tool |-> a.tool, tool_input |-> a.tool_input] : a \in LLMActions}
    \cup {[kind |-> "finish"], [kind |-> "error"]}
    \cup {[kind |-> "unparsed", error_text |-> e] : e \in ErrorTexts}

NoNrm == [phase |-> "none"]
NoSel == [phase |-> "none"]
NoPair == [phase |-> "none"]

\* the state given to app.invoke (lines 107-115 and 80-86), after context injection
Init ==
    /\ loop \in Loops
    /\ query \in Queries
    /\ fs \in {d \in Disks : \A path \in DOMAIN d : \E i \in 1..Len(query) : query[i] = path}
    /\ \E sid \in SessionIds :
          /\ session \in (IF loop = "conversation"
                          THEN {extract_entities_from_query(s, 1, query, fs) :
                                   s \in StartSessions(sid)}
                          ELSE {NewSession(sid, 0)})
          /\ state = [input |-> IF loop = "conversation"
                                THEN _enhance_with_memory(query, session) ELSE query,
                      agent_outcome |-> NoOutcome,
                      intermediate_steps |-> <<>>,
                      session_id |-> sid,
                      step_counter |-> 0,
                      reflections |-> <<>>]
    /\ pc = "reason"
    /\ supersteps = 0
    /\ err = "none"
    /\ output = <<>>
    /\ now = 1 + (IF loop = "conversation" THEN Len(EntityCalls(query, fs)) ELSE 0)
    /\ saved = NoFile
    /\ acts = 0 /\ toolCalls = 0 /\ toolFailures = 0 /\ llmCalls = 0
    /\ lastLLM = "none" /\ llmInput = <<>> /\ reasonCalls = 0 /\ lastError = <<>>
    /\ visitedFinish = FALSE
    /\ allTurns = <<>>
    /\ entityOps = <<>>
    /\ nrm = NoNrm
    /\ sel = NoSel /\ pair = NoPair
    /\ actLog = <<>> /\ evidence = <<>>

Raise(exc) == pc' = "raised" /\ err' = exc

Reason(llm) ==
    /\ pc = "reason"
    /\ supersteps < RecursionLimit
    /\ supersteps' = supersteps + 1
    /\ llmCalls' = llmCalls + 1
    /\ lastLLM' = llm.kind
    \* line 190: "input": state["input"]
    /\ llmInput' = state.input
    /\ reasonCalls' = reasonCalls + 1
    /\ lastError' = IF llm.kind = "unparsed" THEN llm.error_text ELSE lastError
    /\ \E r \in {ReasonNode(loop, state, llm)} :
           IF r.raised
           THEN /\ Raise(r.exc)
                /\ UNCHANGED <<state, visitedFinish>>
           ELSE LET st == ApplyUpdate(state, r.update)
                    route == ShouldContinue(loop, st).route
                IN  /\ state' = st
                    /\ pc' = ReasonEdge(loop, route)
                    /\ visitedFinish' = (visitedFinish \/ route = "finish")
                    /\ err' = err
    /\ UNCHANGED <<loop, output, query, acts, toolCalls, toolFailures, nrm, sel, fs, pair, actLog, evidence>>
    /\ UNCHANGED sessVars

Reflect(failAt) ==
    /\ pc = "reflect"
    /\ supersteps < RecursionLimit
    /\ supersteps' = supersteps + 1
    /\ \E r \in {ReflectNode(state, session, now, failAt)} :
           /\ session' = r.session
           /\ llmCalls' = llmCalls + r.calls
           /\ IF r.raised
              THEN /\ Raise(r.exc)
                   /\ UNCHANGED <<state, visitedFinish, evidence>>
              ELSE LET st == ApplyUpdate(state, r.update)
                       route == PostReflectionRouter(st)
                   IN  /\ state' = st
                       /\ pc' = route
                       /\ visitedFinish' = (visitedFinish \/ route = "finish")
                       /\ err' = err
                       /\ evidence' = IF r.synth THEN ToolResults(state.intermediate_steps)
                                      ELSE evidence
    /\ now' = now + 1
    /\ UNCHANGED <<loop, output, query, acts, toolCalls, toolFailures, lastLLM, llmInput, reasonCalls, lastError,
                   nrm, sel, fs, pair, actLog, saved, allTurns, entityOps>>

Act(fails) ==
    /\ pc = "act"
    /\ supersteps < RecursionLimit
    /\ supersteps' = supersteps + 1
    /\ acts' = acts + 1
    /\ \E r \in {ActNode(loop, state, fails)} :
           /\ toolCalls' = toolCalls + (IF r.invoked THEN 1 ELSE 0)
           /\ toolFailures' = toolFailures + (IF r.invoked /\ fails THEN 1 ELSE 0)
           /\ IF r.raised
              THEN /\ Raise(r.exc)
                   /\ UNCHANGED <<state, session, now, actLog>>
              ELSE /\ state' = ApplyUpdate(state, r.update)
                   /\ actLog' = actLog \o r.update.intermediate_steps
                   /\ pc' = "reason"
                   /\ err' = err
                   \* ConversationAgent._act_node, line 331: _get_session
                   /\ IF loop = "conversation" /\ r.invoked
                      THEN session' = update_access_time(session, now) /\ now' = now + 1
                      ELSE UNCHANGED <<session, now>>
    /\ UNCHANGED <<loop, output, query, llmCalls, lastLLM, llmInput, reasonCalls, lastError, visitedFinish,
                   nrm, sel, fs, pair, evidence, saved, allTurns, entityOps>>

Finish ==
    /\ pc = "finish"
    /\ supersteps < RecursionLimit
    /\ supersteps' = supersteps + 1
    /\ state' = ApplyUpdate(state, FinishNode(state).update)
    /\ pc' = "END"
    /\ UNCHANGED <<loop, err, output, query, acts, toolCalls, toolFailures, llmCalls, lastLLM, llmInput, reasonCalls,
                   lastError, visitedFinish, nrm, sel, fs, pair, actLog, evidence>>
    /\ UNCHANGED sessVars

\* app.invoke raises GraphRecursionError when a node is due after
\* recursion_limit supersteps
RecursionAbort ==
    /\ pc \in {"reason", "reflect", "act", "finish"}
    /\ supersteps = RecursionLimit
    /\ Raise("GraphRecursionError")
    /\ UNCHANGED <<loop, state, supersteps, output, query, acts, toolCalls, toolFailures, llmCalls,
                   lastLLM, llmInput, reasonCalls, lastError, visitedFinish, nrm, sel, fs, pair, actLog, evidence>>
    /\ UNCHANGED sessVars

\* mutant: process() catches a failure of app.invoke and still writes the
\* turn back, with an empty answer, and saves
Return_WritesBackOnFailure ==
    \/ /\ pc = "END"
       /\ IF state.agent_outcome.type # "finish"
          THEN /\ Raise("AttributeError")
               /\ UNCHANGED <<output, session, now, saved, allTurns>>
          ELSE /\ output' = state.agent_outcome.output
               /\ pc' = "returned"
               /\ err' = err
               /\ IF loop = "conversation"
                  THEN /\ session' = add_conversation_turn(session, now, query, output')
                       /\ allTurns' = Append(allTurns, [timestamp |-> now, query |-> query,
                                                        response |-> output'])
                       /\ saved' = save_session(session')
                       /\ now' = now + 1
                  ELSE UNCHANGED <<session, now, saved, allTurns>>
       /\ UNCHANGED <<loop, state, supersteps, query, acts, toolCalls, toolFailures, llmCalls, lastLLM, llmInput, reasonCalls,
                      lastError, visitedFinish, nrm, sel, fs, pair, actLog, evidence, entityOps>>
    \/ /\ pc = "raised" /\ loop = "conversation" /\ allTurns = <<>>
       /\ session' = add_conversation_turn(session, now, query, <<>>)
       /\ allTurns' = Append(allTurns, [timestamp |-> now, query |-> query,
                                        response |-> <<>>])
       /\ saved' = save_session(session')
       /\ now' = now + 1
       /\ UNCHANGED <<loop, pc, err, output, state, supersteps, query, acts, toolCalls,
                      toolFailures, llmCalls, lastLLM, llmInput, reasonCalls, lastError,
                      visitedFinish, nrm, sel, fs, pair, actLog, evidence, entityOps>>

\* mutant: the turn is written with the working input of the run
Return_StoresWorkingInput ==
    /\ pc = "END"
    /\ IF state.agent_outcome.type # "finish"
       THEN /\ Raise("AttributeError")
            /\ UNCHANGED <<output, session, now, saved, allTurns>>
       ELSE /\ output' = state.agent_outcome.output
            /\ pc' = "returned"
            /\ err' = err
            /\ IF loop = "conversation"
               THEN /\ session' = add_conversation_turn(session, now, state.input, output')
                    /\ allTurns' = Append(allTurns, [timestamp |-> now, query |-> state.input,
                                                     response |-> output'])
                    /\ saved' = save_session(session')
                    /\ now' = now + 1
               ELSE UNCHANGED <<session, now, saved, allTurns>>
    /\ UNCHANGED <<loop, state, supersteps, query, acts, toolCalls, toolFailures, llmCalls, lastLLM, llmInput, reasonCalls,
                   lastError, visitedFinish, nrm, sel, fs, pair, actLog, evidence, entityOps>>

\* process() after app.invoke: lines 117-122 (conversation), 88-89 (extraction)
Return ==
    /\ pc = "END"
    /\ IF state.agent_outcome.type # "finish"
       THEN /\ Raise("AttributeError")
            /\ UNCHANGED <<output, session, now, saved, allTurns>>
       ELSE /\ output' = state.agent_outcome.output
            /\ pc' = "returned"
            /\ err' = err
            /\ IF loop = "conversation"
               THEN /\ session' = add_conversation_turn(session, now, query, output')
                    /\ allTurns' = Append(allTurns, [timestamp |-> now, query |-> query,
                                                     response |-> output'])
                    /\ saved' = save_session(session')
                    /\ now' = now + 1
               ELSE UNCHANGED <<session, now, saved, allTurns>>
    /\ UNCHANGED <<loop, state, supersteps, query, acts, toolCalls, toolFailures, llmCalls, lastLLM, llmInput, reasonCalls,
                   lastError, visitedFinish, nrm, sel, fs, pair, actLog, evidence, entityOps>>

Next ==
    \/ \E llm \in LLMOutputs : Reason(llm)
    \/ \E failAt \in 0..2 : Reflect(failAt)
    \/ \E fails \in BOOLEAN : Act(fails)
    \/ Finish
    \/ RecursionAbort
    \/ Return

Spec == Init /\ [][Next]_vars

---------------------------------------------------------------------------
(* The session memory on its own: any sequence of calls on one session *)

IdleState == [input |-> <<>>, agent_outcome |-> NoOutcome, intermediate_steps |-> <<>>,
              session_id |-> "", step_counter |-> 0, reflections |-> <<>>]

NoRun ==
    /\ loop = "none" /\ pc = "idle" /\ state = IdleState /\ supersteps = 0
    /\ err = "none" /\ output = <<>> /\ query = <<>>
    /\ acts = 0 /\ toolCalls = 0 /\ toolFailures = 0 /\ llmCalls = 0
    /\ lastLLM = "none" /\ llmInput = <<>> /\ reasonCalls = 0 /\ lastError = <<>> /\ visitedFinish = FALSE

TurnQueries == {<<"q">>}
TurnResponses == {<<"r">>}
EntityTypes == {"file", "repository"}
EntityValues == {<<"/srv/app/main.py">>, <<"github.com/acme/widgets">>}
EntityMetadata == {PyDict("exists" :> PyBool(TRUE)), PyNone}

SessionInit ==
    /\ NoRun
    /\ now \in 0..MaxStart
    /\ \E sid \in SessionIds : session = NewSession(sid, now)
    /\ saved = NoFile
    /\ allTurns = <<>>
    /\ entityOps = <<>>
    /\ nrm = NoNrm
    /\ sel = NoSel /\ fs = NoDisk /\ pair = NoPair
    /\ actLog = <<>> /\ evidence = <<>>

AddConversationTurn(q, response) ==
    /\ Len(allTurns) < MaxTurns
    /\ now' = now + 1
    /\ session' = add_conversation_turn(session, now', q, response)
    /\ allTurns' = Append(allTurns, [timestamp |-> now', query |-> q, response |-> response])
    /\ UNCHANGED <<saved, entityOps, nrm, sel, fs, pair, actLog, evidence>>
    /\ UNCHANGED runVars

AddEntity(entity_type, value, metadata) ==
    /\ now' = now + 1
    /\ entityOps' = Append(entityOps, [type |-> entity_type, value |-> value,
                                       metadata |-> metadata, at |-> now'])
    /\ session' = add_entity(session, now', entity_type, value, metadata)
    /\ UNCHANGED <<saved, allTurns, nrm, sel, fs, pair, actLog, evidence>>
    /\ UNCHANGED runVars

SessionNext ==
    \/ \E q \in TurnQueries, r \in TurnResponses : AddConversationTurn(q, r)
    \/ \E ty \in EntityTypes, v \in EntityValues, m \in EntityMetadata :
          Len(entityOps) < MaxEntityOps /\ AddEntity(ty, v, m)

SessionSpec == SessionInit /\ [][SessionNext]_vars

\* add_entity calls only, so that pairs are added again
EntityNext ==
    \E ty \in EntityTypes, v \in EntityValues, m \in EntityMetadata :
        Len(entityOps) < MaxEntityCalls /\ AddEntity(ty, v, m)

EntitySpec == SessionInit /\ [][EntityNext]_vars

---------------------------------------------------------------------------
(* The input normalizers on their own: one call on any tool and raw input *)

NormTools == ALL_TOOLS \cup {"unknown_tool"}

RawStrings ==
    {<<"%H:%M">>, <<DQ, "%H:%M", DQ>>, <<"recent">>, <<"7">>, <<"+", "7">>,
     <<"limit", "=", "7">>, <<"limit", SP, "=", SP, "12">>,
     <<"entity_type", "=", SQ, "file", SQ, ",", SP, "limit", "=", "7">>,
     <<"{", "\"limit\"", ":", "7", "}">>,
     <<"{", "\"format\"", ":", "\"%H:%M\"", "}">>,
     <<"{", "\"query\"", ":", "\"file\"", "}">>,
     <<"{", "\"input\"", ":", "\"file\"", "}">>,
     <<"{", "\"entity_type\"", ":", "\"file\"", ",", "\"limit\"", ":", "12", "}">>,
     <<"{", "\"directory\"", ":", "\"/srv/app\"", "}">>,
     <<"{", "}">>,
     <<"[", "7", "]">>,
     <<"\"%H:%M\"">>,
     <<"/srv/app", SP, ".py", SP, ".js">>,
     <<"/srv/app">>,
     <<"https://github.com/acme/widgets">>,
     <<"https://github.com/acme/widgets", SP, ".py">>}

RawStructured ==
    {PyDict(EmptyMap),
     PyDict("limit" :> PyInt(7)),
     PyDict("format" :> PyStr(<<"%H:%M">>)),
     PyDict("query" :> PyStr(<<"file">>)),
     PyDict("input" :> PyStr(<<"file">>)),
     PyDict(("entity_type" :> PyStr(<<"file">>)) @@ ("limit" :> PyInt(12))),
     PyDict("directory" :> PyStr(<<"/srv/app">>)),
     PyDict(("git_url" :> PyStr(<<"https://github.com/acme/widgets">>))
            @@ ("extensions" :> PyList(<<PyStr(<<".md">>)>>))
            @@ ("clipboard_only" :> PyBool(FALSE))),
     PyInt(7)}

RawInputs == {PyStr(t) : t \in RawStrings} \cup RawStructured

NormInit ==
    /\ NoRun
    /\ now = 0
    /\ session = NewSession("", 0)
    /\ saved = NoFile
    /\ allTurns = <<>>
    /\ entityOps = <<>>
    /\ \E l \in Loops, t \in NormTools, i \in RawInputs :
          nrm = [phase |-> "in", loop |-> l, tool_name |-> t, tool_input |-> i]
    /\ sel = NoSel /\ fs = NoDisk /\ pair = NoPair
    /\ actLog = <<>> /\ evidence = <<>>

Normalize ==
    /\ nrm.phase = "in"
    /\ nrm' = [phase |-> "out", loop |-> nrm.loop, tool_name |-> nrm.tool_name,
               tool_input |-> nrm.tool_input,
               result |-> _parse_tool_input(nrm.loop, nrm.tool_name, nrm.tool_input)]
    /\ UNCHANGED <<sel, fs, pair, actLog, evidence>>
    /\ UNCHANGED runVars
    /\ UNCHANGED sessVars

NormNext == Normalize

NormSpec == NormInit /\ [][NormNext]_vars

---------------------------------------------------------------------------
(* Coordinator: _classify_query, _fallback_routing, process *)

\* str.lower() on the tokens of the model that have upper-case letters
LowerOf == ("Extraction" :> "extraction") @@ ("Extract" :> "extract")
           @@ ("CONVERSATION" :> "conversation")

Lower(s) == [i \in 1..Len(s) |-> IF s[i] \in DOMAIN LowerOf THEN LowerOf[s[i]] ELSE s[i]]

\* tokens in which one of the one-word extraction_patterns matches:
\* extract(ion)?, \.git, github\.com, repository, folder, directory
PatternTokens == {"extract", "extraction", "app.git", "https://github.com/acme/widgets",
                  "repository", "folder", "directory"}

\* no newline strictly between positions i and j ('.' does not match it)
SameLine(s, i, j) == \A k \in (i + 1)..(j - 1) : s[k] # NL

\* any(re.search(pattern, query_lower) for pattern in extraction_patterns)
MatchesExtractionPattern(q) ==
    \/ \E i \in 1..Len(q) : q[i] \in PatternTokens
    \/ \E i \in 1..(Len(q) - 2) :
          /\ q[i] \in {"get", "pull"} /\ q[i + 1] = SP
          /\ q[i + 2] = (IF q[i] = "get" THEN "content" ELSE "files")
    \/ \E i, j \in 1..Len(q) :
          i < j /\ q[i] = "fetch" /\ q[j] = "content" /\ SameLine(q, i, j)
    \/ \E i \in 1..Len(q), j \in 1..(Len(q) - 2) :
          /\ i < j /\ q[i] = "get" /\ SameLine(q, i, j)
          /\ q[j] = "files" /\ q[j + 1] = SP /\ q[j + 2] = "from"

\* can_handle of the two agents, in tenths
ExtractionCanHandle(q) == IF MatchesExtractionPattern(Lower(q)) THEN 8 ELSE 2
ConversationCanHandle(q) == IF MatchesExtractionPattern(Lower(q)) THEN 3 ELSE 7

_fallback_routing(q) ==
    IF ExtractionCanHandle(q) > ConversationCanHandle(q) THEN "extraction" ELSE "conversation"

\* response: what self.llm.invoke gave; kind "error" when it raised
_classify_query(q, response) ==
    IF response.kind = "error" THEN _fallback_routing(q)
    ELSE LET classification == Lower(Strip(response.content))
         IN  IF classification \notin {<<"extraction">>, <<"conversation">>}
             THEN "conversation"
             ELSE classification[1]

CoordQueries ==
    {<<"hello">>,
     <<"Extract", SP, "the", SP, "files">>,
     <<"get", SP, "content">>,
     <<"get", SP, SP, "content">>,
     <<"pull", SP, "files">>,
     <<"fetch", SP, "the", SP, "content">>,
     <<"fetch", NL, "content">>,
     <<"content", SP, "fetch">>,
     <<"get", SP, "the", SP, "files", SP, "from", SP, "here">>,
     <<"clone", SP, "https://github.com/acme/widgets">>,
     <<"what", SP, "is", SP, "a", SP, "repository">>,
     <<"list", SP, "the", SP, "folder">>,
     <<"open", SP, "app.git">>}

ClassifierResponses ==
    {[kind |-> "text", content |-> c] :
        c \in {<<"extraction">>, <<"conversation">>, <<"Extraction">>,
               <<SP, "conversation", NL>>, <<"banana">>,
               <<"extraction", SP, "query">>, <<>>}}
    \cup {[kind |-> "error"]}

\* Coordinator.process is called with a query
CoordInit ==
    /\ loop = "none" /\ pc = "classify" /\ state = IdleState /\ supersteps = 0
    /\ err = "none" /\ output = <<>>
    /\ query \in CoordQueries
    /\ acts = 0 /\ toolCalls = 0 /\ toolFailures = 0 /\ llmCalls = 0
    /\ lastLLM = "none" /\ llmInput = <<>> /\ reasonCalls = 0 /\ lastError = <<>> /\ visitedFinish = FALSE
    /\ now = 0
    /\ session = NewSession("", 0)
    /\ saved = NoFile
    /\ allTurns = <<>>
    /\ entityOps = <<>>
    /\ nrm = NoNrm
    /\ sel = [phase |-> "in"]
    /\ fs = NoDisk /\ pair = NoPair
    /\ actLog = <<>> /\ evidence = <<>>

\* line 79: agent_type = self._classify_query(query)
Classify(response) ==
    /\ pc = "classify"
    /\ sel' = [phase |-> "out", response |-> response,
               agent_type |-> _classify_query(query, response)]
    /\ llmCalls' = llmCalls + 1
    /\ pc' = "route"
    /\ UNCHANGED <<loop, state, supersteps, err, output, query, acts, toolCalls, toolFailures,
                   lastLLM, llmInput, reasonCalls, lastError, visitedFinish, nrm, fs, pair, actLog, evidence>>
    /\ UNCHANGED sessVars

\* lines 81-84: the agent whose process() is called
SelectAgent ==
    /\ pc = "route"
    /\ loop' = IF sel.agent_type = "extraction" THEN "extraction" ELSE "conversation"
    /\ pc' = "selected"
    /\ UNCHANGED <<state, supersteps, err, output, query, acts, toolCalls, toolFailures,
                   llmCalls, lastLLM, llmInput, reasonCalls, lastError, visitedFinish, nrm, sel, fs, pair, actLog, evidence>>
    /\ UNCHANGED sessVars

CoordNext ==
    \/ \E response \in ClassifierResponses : Classify(response)
    \/ SelectAgent

CoordSpec == CoordInit /\ [][CoordNext]_vars


---------------------------------------------------------------------------
(* Two conversation runs on one SessionManager *)

\* Two calls of ConversationAgent.process with different session ids on the
\* same agent, their steps interleaved.  A session object is named by the key
\* under which active_sessions holds it; each run keeps its graph state and
\* the key of the session object process() fetched.
PairIds == {"s1", "s2"}
PairQuery ==
    ("s1" :> <<"hello">>)
    @@ ("s2" :> <<"read", SP, "/home/user/project/app.py", SP, "and", SP,
                  "https://github.com/acme/widgets">>)
\* the first run is a short one, the second one is long enough to reflect
PairSteps == ("s1" :> 1) @@ ("s2" :> MaxPairSteps)
PairDisk == ("/home/user/project/app.py" :> "file")
PairLLM ==
    {[kind |-> "action", tool |-> "tavily_search_results_json",
      tool_input |-> PyStr(<<"file">>)],
     [kind |-> "finish"]}

\* mutant: the lookup ignores the id and hands out a session already loaded
get_session_IgnoresId(active_sessions, session_id, t) ==
    IF DOMAIN active_sessions # {}
    THEN LET k == CHOOSE k \in DOMAIN active_sessions : TRUE
         IN  [key |-> k,
              active_sessions |-> [active_sessions EXCEPT ![k] = update_access_time(@, t)]]
    ELSE [key |-> session_id,
          active_sessions |-> (session_id :> NewSession(session_id, t)) @@ active_sessions]

\* SessionManager.get_session with no session file on disk: the key of the
\* session returned, and active_sessions after the call
get_session(active_sessions, session_id, t) ==
    IF session_id \in DOMAIN active_sessions
    THEN [key |-> session_id,
          active_sessions |-> [active_sessions EXCEPT ![session_id] = update_access_time(@, t)]]
    ELSE [key |-> session_id,
          active_sessions |-> (session_id :> NewSession(session_id, t)) @@ active_sessions]

PairInit ==
    /\ NoRun
    /\ now = 1
    /\ session = NewSession("", 0)
    /\ saved = NoFile
    /\ allTurns = <<>>
    /\ entityOps = <<>>
    /\ nrm = NoNrm /\ sel = NoSel
    /\ fs = PairDisk
    /\ actLog = <<>> /\ evidence = <<>>
    /\ pair = [phase |-> "pair",
               run |-> [id \in PairIds |-> [pc |-> "start", key |-> "", state |-> IdleState,
                                            output |-> <<>>]],
               active_sessions |-> EmptyMap,
               files |-> EmptyMap,
               alone |-> [id \in PairIds |-> NewSession(id, 0)],
               last |-> "none"]

pairIdle == <<loop, pc, state, supersteps, err, output, query, session, saved, acts, toolCalls,
              toolFailures, llmCalls, lastLLM, llmInput, reasonCalls, lastError, visitedFinish, allTurns, entityOps,
              actLog, evidence, nrm, sel, fs>>

\* process(), lines 70-115: the session is fetched, the query's entities are
\* recorded in it and the graph is given its initial state
PairStart(id) ==
    /\ pair.phase = "pair"
    /\ pair.run[id].pc = "start"
    /\ \E g \in {get_session(pair.active_sessions, id, now)} :
          LET calls == EntityCalls(PairQuery[id], fs)
              s == AddEntities(g.active_sessions[g.key], now + 1, calls)
          IN  /\ pair' = [pair EXCEPT
                    !.active_sessions = [g.active_sessions EXCEPT ![g.key] = s],
                    !.alone[id] = AddEntities(NewSession(id, now), now + 1, calls),
                    !.run[id] = [pc |-> "reason", key |-> g.key,
                                 state |-> [input |-> _enhance_with_memory(PairQuery[id], s),
                                            agent_outcome |-> NoOutcome,
                                            intermediate_steps |-> <<>>,
                                            session_id |-> s.session_id,
                                            step_counter |-> 0,
                                            reflections |-> <<>>],
                                 output |-> <<>>],
                    !.last = id]
              /\ now' = now + 1 + Len(calls)
    /\ UNCHANGED pairIdle

PairReason(id, llm) ==
    /\ pair.phase = "pair"
    /\ pair.run[id].pc = "reason"
    /\ llm.kind = "action" => pair.run[id].state.step_counter < PairSteps[id]
    /\ \E r \in {ReasonNode("conversation", pair.run[id].state, llm)} :
          LET st == ApplyUpdate(pair.run[id].state, r.update)
          IN  pair' = [pair EXCEPT
                  !.run[id].state = st,
                  !.run[id].pc = ReasonEdge("conversation", ShouldContinue("conversation", st).route),
                  !.last = id]
    /\ UNCHANGED now
    /\ UNCHANGED pairIdle

\* _reflect_node fetches the session of state["session_id"] (lines 220-221)
PairReflect(id) ==
    /\ pair.phase = "pair"
    /\ pair.run[id].pc = "reflect"
    /\ \E g \in {get_session(pair.active_sessions, pair.run[id].state.session_id, now)} :
       \E r \in {ReflectNode(pair.run[id].state, pair.active_sessions[g.key], now, 0)} :
       \E a \in {ReflectNode(pair.run[id].state, pair.alone[id], now, 0)} :
          LET st == ApplyUpdate(pair.run[id].state, r.update)
          IN  pair' = [pair EXCEPT
                  !.active_sessions[g.key] = r.session,
                  !.alone[id] = a.session,
                  !.run[id].state = st,
                  !.run[id].pc = PostReflectionRouter(st),
                  !.last = id]
    /\ now' = now + 1
    /\ UNCHANGED pairIdle

\* _act_node fetches the session of state["session_id"] (lines 330-331)
PairAct(id) ==
    /\ pair.phase = "pair"
    /\ pair.run[id].pc = "act"
    /\ \E g \in {get_session(pair.active_sessions, pair.run[id].state.session_id, now)} :
       \E r \in {ActNode("conversation", pair.run[id].state, FALSE)} :
          pair' = [pair EXCEPT
              !.active_sessions = g.active_sessions,
              !.alone[id] = update_access_time(@, now),
              !.run[id].state = ApplyUpdate(pair.run[id].state, r.update),
              !.run[id].pc = "reason",
              !.last = id]
    /\ now' = now + 1
    /\ UNCHANGED pairIdle

PairFinish(id) ==
    /\ pair.phase = "pair"
    /\ pair.run[id].pc = "finish"
    /\ pair' = [pair EXCEPT
           !.run[id].state = ApplyUpdate(@, FinishNode(@).update),
           !.run[id].pc = "END",
           !.last = id]
    /\ UNCHANGED now
    /\ UNCHANGED pairIdle

\* process(), lines 117-122: the turn is added to the session object fetched
\* at line 70 and the session of its session_id is saved
PairReturn(id) ==
    /\ pair.phase = "pair"
    /\ pair.run[id].pc = "END"
    /\ LET run == pair.run[id]
           out == run.state.agent_outcome.output
           s == add_conversation_turn(pair.active_sessions[run.key], now, PairQuery[id], out)
       IN  pair' = [pair EXCEPT
               !.active_sessions[run.key] = s,
               !.files = (s.session_id :> s) @@ @,
               !.alone[id] = add_conversation_turn(@, now, PairQuery[id], out),
               !.run[id].output = out,
               !.run[id].pc = "returned",
               !.last = id]
    /\ now' = now + 1
    /\ UNCHANGED pairIdle

PairNext ==
    \E id \in PairIds :
        \/ PairStart(id)
        \/ \E llm \in PairLLM : PairReason(id, llm)
        \/ PairReflect(id)
        \/ PairAct(id)
        \/ PairFinish(id)
        \/ PairReturn(id)

PairSpec == PairInit /\ [][PairNext]_vars

---------------------------------------------------------------------------
(* Several conversation runs on one session, with the memory tools *)

\* the reasoning component proposes the history tool or the entity tool, or
\* gives its answer
HistLLM ==
    {[kind |-> "action", tool |-> "get_conversation_history", tool_input |-> PyStr(<<"5">>)],
     [kind |-> "action", tool |-> "get_memory_entities",
      tool_input |-> PyStr(<<"entity_type", "=", SQ, "file", SQ, ",", SP, "limit", "=", "7">>)],
     [kind |-> "finish"]}

\* the first call of process() on a new session
HistInit ==
    /\ Init
    /\ loop = "conversation"
    /\ query = <<"hello">>
    /\ session.conversation_history = <<>>

\* a later call of process() with the same session id (lines 70-115): the
\* session is still in active_sessions
LaterRun(q) ==
    /\ pc = "returned"
    /\ Len(allTurns) < MaxRuns
    /\ query' = q
    /\ LET s == extract_entities_from_query(update_access_time(session, now), now + 1, q, fs)
       IN  /\ session' = s
           /\ state' = [input |-> _enhance_with_memory(q, s),
                        agent_outcome |-> NoOutcome,
                        intermediate_steps |-> <<>>,
                        session_id |-> s.session_id,
                        step_counter |-> 0,
                        reflections |-> <<>>]
    /\ now' = now + 1 + Len(EntityCalls(q, fs))
    /\ pc' = "reason" /\ supersteps' = 0 /\ output' = <<>>
    /\ acts' = 0 /\ toolCalls' = 0 /\ toolFailures' = 0 /\ llmCalls' = 0
    /\ lastLLM' = "none" /\ llmInput' = <<>> /\ reasonCalls' = 0 /\ visitedFinish' = FALSE
    /\ actLog' = <<>> /\ evidence' = <<>>
    /\ UNCHANGED <<loop, err, saved, allTurns, entityOps, lastError, nrm, sel, fs, pair>>

HistNext ==
    \/ \E llm \in HistLLM :
          /\ llm.kind = "action" => state.step_counter < MaxHistSteps
          /\ Reason(llm)
    \/ Reflect(0)
    \/ Act(FALSE)
    \/ Finish
    \/ Return
    \/ LaterRun(<<"hello">>)

HistorySpec == HistInit /\ [][HistNext]_vars

---------------------------------------------------------------------------
(* Properties *)

\* C1: whenever a run of either loop has reached Finished, step_counter is
\* at most the budget of its loop (5 for extraction, 10 for conversation).
C1_StepCounterWithinBudget ==
    visitedFinish => state.step_counter <= Budget(loop)

\* a run that reached Finished with step_counter equal to its budget
C1_Witness ==
    visitedFinish /\ pc = "finish" /\ state.step_counter = Budget(loop)

\* C2 (as claimed): a run in which no LLM call and no tool invocation failed
\* never ends without having reached Finished.
C2_AlwaysReachesFinished ==
    (pc = "raised" /\ err \notin {"LLMError", "ToolError"}) => visitedFinish

\* C3: once the outcome is a FinalAnswer, each step leaves it as it is or
\* replaces it by the budget apology, and no step is an Act: _act_node does
\* not run, no tool is invoked, step_counter does not change and the graph
\* does not move to the act node.
C3_FinalAnswerIsKept ==
    [][state.agent_outcome.type = "finish" =>
          /\ state'.agent_outcome \in {state.agent_outcome, MaxStepsFinish(loop)}
          /\ acts' = acts
          /\ toolCalls' = toolCalls
          /\ state'.step_counter = state.step_counter
          /\ pc' # "act"]_vars

\* a run that acted, then got a FinalAnswer and returned it
C3_Witness ==
    pc = "returned" /\ state.agent_outcome.type = "finish" /\ acts >= 1

\* C4 (as claimed): an extraction run in which reasoning never gave a final
\* answer makes exactly 5 Acts and then finishes with the "maximum steps"
\* FinalAnswer as its outcome, which it returns.
C4_BudgetRunReturnsApology ==
    (loop = "extraction" /\ lastLLM = "action" /\ pc \in {"END", "returned", "raised"}
        /\ visitedFinish)
    => /\ acts = ExtractionBudget
       /\ state.agent_outcome = MaxStepsFinish(loop)
       /\ pc # "raised"
       /\ (pc = "returned" => output = ApologyExtraction)

\* C5: after a reasoning output that could not be parsed, the Reasoning step
\* has not raised, the outcome is a FinalAnswer, the run is in (or past)
\* Finished, and no Act follows.
C5_ParseFailureFinishes ==
    /\ [](lastLLM = "unparsed" =>
            /\ state.agent_outcome.type = "finish"
            /\ visitedFinish
            /\ pc \in {"finish", "END", "returned", "raised"}
            /\ err \in {"none", "GraphRecursionError"})
    /\ [][lastLLM = "unparsed" => acts' = acts /\ pc' # "act"]_vars

\* a run that acted, then got an unparseable output and returned an answer
C5_Witness ==
    lastLLM = "unparsed" /\ pc = "returned" /\ acts >= 1

\* C6 (as claimed): the answer returned after a malformed reasoning output
\* is never the raw unparsed text.
C6_NoRawDump ==
    (pc = "returned" /\ lastLLM = "unparsed") => output # UnparsedText(lastError)

\* C7 (as claimed): for every tool and raw input the normalizer returns a
\* structured (mapping) input and does not raise.
C7_NormalizerNeverRaises ==
    nrm.phase = "out" => (~nrm.result.raised /\ nrm.result.value.k = "dict")

\* C8: an Act whose pending action names a tool outside the loop's subset
\* does not raise and invokes no tool; it appends exactly one pair (the
\* action, "Tool '<name>' not found ...") to the history, adds 1 to
\* step_counter, and the run continues at Reasoning.
C8_UnknownToolIsObserved ==
    [][(pc = "act" /\ acts' = acts + 1
          /\ state.agent_outcome.type = "action"
          /\ state.agent_outcome.tool \notin tool_map(loop))
       => /\ pc' = "reason"
          /\ err' = "none"
          /\ toolCalls' = toolCalls
          /\ state'.step_counter = state.step_counter + 1
          /\ Len(state'.intermediate_steps) = Len(state.intermediate_steps) + 1
          /\ SubSeq(state'.intermediate_steps, 1, Len(state.intermediate_steps))
                = state.intermediate_steps
          /\ LET last == state'.intermediate_steps[Len(state'.intermediate_steps)]
             IN  /\ last.action = state.agent_outcome
                 /\ last.observation[1] = "Tool '"
                 /\ last.observation[2] = state.agent_outcome.tool
                 /\ last.observation[3] \in
                        {"' not found in extraction tools",
                         "' not found in conversation tools. Available tools: "}]_vars

\* a run back at Reasoning after an Act on an unknown tool
C8_Witness ==
    /\ pc = "reason" /\ acts >= 1 /\ state.intermediate_steps # <<>>
    /\ LET last == state.intermediate_steps[Len(state.intermediate_steps)]
       IN  last.action.tool \notin tool_map(loop) /\ last.observation[1] = "Tool '"

\* C9: when a tool invocation raises, the run ends by that failure: the
\* tool was invoked once by that Act, nothing was appended to the history or
\* changed in the state, the outcome is still the pending action, nothing is
\* returned, and no further step (no retry) follows.
C9_ToolFailurePropagates ==
    /\ [](toolFailures > 0 =>
            /\ toolFailures = 1
            /\ pc = "raised" /\ err = "ToolError"
            /\ state.agent_outcome.type = "action"
            /\ output = <<>>)
    /\ [][toolFailures' # toolFailures =>
            /\ toolCalls' = toolCalls + 1
            /\ state' = state]_vars
    /\ [][toolFailures = 0]_vars

\* a run ended by a tool failure after at least one completed Act
C9_Witness ==
    toolFailures = 1 /\ pc = "raised" /\ state.step_counter >= 1

\* C10: after every add_conversation_turn the history has at most 20
\* entries, and they are the most recently appended turns in their order
\* (all of them while at most 20 were appended, else the last 20).
C10_HistoryIsLast20 ==
    LET h == session.conversation_history
        n == Len(allTurns)
    IN  /\ Len(h) <= 20
        /\ Len(h) = (IF n > 20 THEN 20 ELSE n)
        /\ \A i \in 1..Len(h) : h[i] = allTurns[n - Len(h) + i]

\* more than 20 turns were appended
C10_Witness ==
    Len(allTurns) = 22 /\ Len(session.conversation_history) = 20

\* C11: a call of add_entity with a (type, value) pair that the session
\* already holds replaces that entry's last_mentioned and metadata by the new
\* values, leaves the number of entities unchanged and leaves every other
\* entity as it was.
C11_ReAddOverwrites ==
    [][Len(entityOps') = Len(entityOps) + 1 =>
         LET op == entityOps'[Len(entityOps')]
             key == EntityKey(op.type, op.value)
         IN  (\E e \in {session.entities[k] : k \in DOMAIN session.entities} :
                  e.type = op.type /\ e.value = op.value)
             => /\ DOMAIN session'.entities = DOMAIN session.entities
                /\ Cardinality(DOMAIN session'.entities) = Cardinality(DOMAIN session.entities)
                /\ session'.entities[key].type = op.type
                /\ session'.entities[key].value = op.value
                /\ session'.entities[key].last_mentioned = op.at
                /\ session'.entities[key].metadata =
                       (IF op.metadata = PyNone THEN PyDict(EmptyMap) ELSE op.metadata)
                /\ \A k \in DOMAIN session.entities \ {key} :
                       session'.entities[k] = session.entities[k]]_vars

\* a pair was added a second time, with other metadata and at a later time,
\* while the session holds a second entity
C11_Witness ==
    /\ Len(entityOps) = 3
    /\ entityOps[3].type = entityOps[1].type /\ entityOps[3].value = entityOps[1].value
    /\ entityOps[3].metadata # entityOps[1].metadata
    /\ Cardinality(DOMAIN session.entities) = 2

\* C12 (as claimed): for every tool of either loop, normalizing a mapping
\* returns a mapping that holds every given field with its given value, in
\* which every further field is a default of the tool (the extraction tools
\* get extensions and clipboard_only), and which normalizes to itself.
C12_StructuredInputIsKept ==
    (nrm.phase = "out" /\ nrm.tool_input.k = "dict" /\ nrm.tool_name \in tool_map(nrm.loop)) =>
        LET given == nrm.tool_input.f
            defaults ==
                IF nrm.loop = "extraction"
                THEN ExtDefaults(nrm.tool_name, PyDict(EmptyMap)).value.f
                ELSE IF nrm.tool_name = "tavily_search_results_json" THEN EmptyMap
                ELSE ConvStructured(nrm.tool_name, PyDict(EmptyMap)).value.f
        IN  /\ ~nrm.result.raised
            /\ nrm.result.value.k = "dict"
            /\ \A key \in DOMAIN given :
                   /\ key \in DOMAIN nrm.result.value.f
                   /\ nrm.result.value.f[key] = given[key]
            /\ \A key \in DOMAIN nrm.result.value.f \ DOMAIN given :
                   /\ key \in DOMAIN defaults
                   /\ nrm.result.value.f[key] = defaults[key]
            /\ nrm.loop = "extraction" =>
                   {"extensions", "clipboard_only"} \subseteq DOMAIN nrm.result.value.f
            /\ _parse_tool_input(nrm.loop, nrm.tool_name, nrm.result.value)
                   = Returned(nrm.result.value)

\* C13 (as claimed): for the history tool, a raw input that is the integer
\* N, text that parses as the integer N, or free text containing limit=N
\* normalizes to {limit: N}; any other free text normalizes to {limit: 5}.
\* Text that decodes to a mapping is a structured payload, not free text.
C13_HistoryLimit ==
    (/\ nrm.phase = "out" /\ nrm.loop = "conversation"
     /\ nrm.tool_name = "get_conversation_history"
     /\ nrm.tool_input.k \in {"int", "str"}
     /\ nrm.tool_input.k = "str" =>
            ~(~JsonLoads(nrm.tool_input.toks).raised
              /\ JsonLoads(nrm.tool_input.toks).value.k = "dict")) =>
        LET N == IF nrm.tool_input.k = "int" THEN nrm.tool_input.n
                 ELSE IF ~ParseInt(nrm.tool_input.toks).raised
                      THEN ParseInt(nrm.tool_input.toks).value
                 ELSE IF LimitMatch(nrm.tool_input.toks) # {}
                      THEN CHOOSE x \in LimitMatch(nrm.tool_input.toks) : TRUE
                 ELSE 5
        IN  /\ ~nrm.result.raised
            /\ nrm.result.value = PyDict("limit" :> PyInt(N))

\* C14 (as claimed): the classifier's response selects the loop only when it
\* is one of the two labels extraction, conversation; for any other response
\* and for a failed classification call the heuristic scorer selects
\* (extraction if its confidence is strictly higher, otherwise
\* conversation); the failure is not surfaced.  A label is recognised here
\* as the code does, after trimming and lower-casing, so that the wrong-case
\* response of C15 is not what decides this formula.
C14_InvalidLabelFallsBack ==
    pc = "selected" =>
        /\ err = "none"
        /\ IF sel.response.kind = "text"
              /\ Lower(Strip(sel.response.content)) \in {<<"extraction">>, <<"conversation">>}
           THEN loop = Lower(Strip(sel.response.content))[1]
           ELSE loop = (IF ExtractionCanHandle(query) > ConversationCanHandle(query)
                        THEN "extraction" ELSE "conversation")

\* C15 (as claimed): when the classifier returns the text "Extraction", the
\* loop is the one the two heuristic confidence scores of the query select.
C15_WrongCaseFallsBack ==
    (pc = "selected" /\ sel.response.kind = "text" /\ sel.response.content = <<"Extraction">>) =>
        loop = (IF ExtractionCanHandle(query) > ConversationCanHandle(query)
                THEN "extraction" ELSE "conversation")

\* C16 (as claimed): in a conversation run whose second, third and fourth
\* actions use the same tool and are completed at step_counter = 4, when the
\* reasoning component proposes a further action the run finishes with the
\* synthesized FinalAnswer, a loop_detection reflection of step 3 or 4 is
\* recorded, and the evidence of the synthesis is those 3 observations, each
\* cut to its first 1000 characters.
C16_SynthesisFromThree ==
    (/\ loop = "conversation" /\ Len(actLog) = 4 /\ state.step_counter = 4
     /\ actLog[2].action.tool = actLog[3].action.tool
     /\ actLog[3].action.tool = actLog[4].action.tool
     /\ lastLLM = "action" /\ llmCalls > 5 /\ pc \in {"act", "finish"}) =>
        /\ pc = "finish"
        /\ state.agent_outcome = AgentFinish(SynthAnswer, LogSynth)
        /\ \E i \in 1..Len(state.reflections) :
              /\ state.reflections[i].type = "loop_detection"
              /\ state.reflections[i].step \in {3, 4}
        /\ evidence = [i \in 1..3 |->
                          [tool |-> actLog[i + 1].action.tool,
                           result |-> Truncate1000(actLog[i + 1].observation)]]

\* C17 (as claimed): every run that has reached Finished and is over, in either
\* loop, has written back to session memory: the last conversation turn of
\* the session is this run's query with this run's answer, and the session
\* file holds the session.
C17_WriteBackAfterFinished ==
    (visitedFinish /\ pc \in {"returned", "raised"}) =>
        /\ session.conversation_history # <<>>
        /\ LET turn == session.conversation_history[Len(session.conversation_history)]
           IN  turn.query = query /\ turn.response = output
        /\ saved = save_session(session)

\* C18 (as claimed): for the query naming /home/user/project/app.py and
\* https://github.com/acme/widgets, from context injection on, in either
\* loop, the session holds an entity of type repository for the URL and,
\* when the path exists on disk, an entity of type file for the path.
C18_EntitiesPopulated ==
    (\E i, j \in 1..Len(query) : /\ query[i] = "/home/user/project/app.py"
                                 /\ query[j] = "https://github.com/acme/widgets") =>
        /\ \E k \in DOMAIN session.entities :
              /\ session.entities[k].type = "repository"
              /\ session.entities[k].value = <<"https://github.com/acme/widgets">>
        /\ PathExists(fs, "/home/user/project/app.py") =>
              \E k \in DOMAIN session.entities :
                 /\ session.entities[k].type = "file"
                 /\ session.entities[k].value = <<"/home/user/project/app.py">>

\* C19 (as claimed): in every run, the number of LLM calls (reasoning, loop
\* critique, efficiency critique and synthesis together) and the number of
\* tool invocations are each at most the step budget of the loop.
C19_CallsWithinBudget ==
    /\ llmCalls <= Budget(loop)
    /\ toolCalls <= Budget(loop)

\* C20 (as claimed): two runs with distinct session ids on one session store,
\* interleaved in any order, do not affect each other: a step of one run
\* leaves the ExecutionState of the other run as it was, every session holds
\* at every moment what its own run alone has written to it, and when both
\* runs have returned each session and each session file holds exactly the
\* one turn and the entities of its own run.
C20_RunsAreIndependent ==
    /\ [][pair.phase = "pair" =>
             \A id \in PairIds : pair'.last # id => pair'.run[id] = pair.run[id]]_vars
    /\ [](pair.phase = "pair" =>
             \A id \in PairIds :
                 pair.run[id].pc # "start" =>
                     /\ pair.run[id].key = id
                     /\ id \in DOMAIN pair.active_sessions
                     /\ pair.active_sessions[id] = pair.alone[id]
                     /\ pair.run[id].pc = "returned" =>
                           /\ Len(pair.active_sessions[id].conversation_history) = 1
                           /\ pair.active_sessions[id].conversation_history[1].query = PairQuery[id]
                           /\ pair.active_sessions[id].conversation_history[1].response
                                  = pair.run[id].output
                           /\ id \in DOMAIN pair.files
                           /\ pair.files[id] = pair.alone[id])

\* both runs have returned, the second one after reflecting, their steps
\* interleaved: the first run returned between two steps of the second
C20_Witness ==
    /\ pair.phase = "pair"
    /\ \A id \in PairIds : pair.run[id].pc = "returned"
    /\ pair.run["s2"].state.reflections # <<>>
    /\ pair.active_sessions["s1"].conversation_history[1].timestamp
           > pair.active_sessions["s2"].created_at
    /\ pair.active_sessions["s1"].conversation_history[1].timestamp
           < pair.active_sessions["s2"].conversation_history[1].timestamp
    /\ DOMAIN pair.active_sessions["s1"].entities # DOMAIN pair.active_sessions["s2"].entities

\* C21: the two loops partition the tool registry.  An Act of the
\* conversation loop that invokes a tool invokes none of the two extraction
\* tools, an Act of the extraction loop that invokes a tool invokes one of
\* the two, and an Act on a proposed action that names a tool of the other
\* loop invokes nothing and appends the not-found observation.
C21_RegistryIsPartitioned ==
    /\ extraction_tools \cup conversation_tools = ALL_TOOLS
    /\ extraction_tools \cap conversation_tools = {}
    /\ extraction_tools = {"extract_content_local", "extract_git_content"}
    /\ [][(acts' = acts + 1 /\ state.agent_outcome.type = "action") =>
            LET tool == state.agent_outcome.tool
                other == IF loop = "extraction" THEN conversation_tools ELSE extraction_tools
            IN  /\ toolCalls' # toolCalls => tool \in ALL_TOOLS \ other
                /\ tool \in other =>
                      /\ toolCalls' = toolCalls
                      /\ pc' = "reason"
                      /\ state'.intermediate_steps =
                            Append(state.intermediate_steps,
                                   [action |-> state.agent_outcome,
                                    observation |-> NotFoundMessage(loop, tool)])]_vars

\* a conversation run has invoked one of its own tools and has then answered
\* a proposal of an extraction tool with the not-found observation
C21_Witness ==
    /\ loop = "conversation"
    /\ toolCalls = 1
    /\ Len(actLog) = 2
    /\ actLog[1].action.tool \in conversation_tools
    /\ actLog[2].action.tool \in extraction_tools
    /\ actLog[2].observation = NotFoundMessage(loop, actLog[2].action.tool)

\* C22 (as claimed): when the history tool is invoked by an Act of a run on
\* a session to which earlier runs have written k >= 1 turns, with a limit of
\* at least 1, the Act does not raise and its observation is not the text
\* for an empty history: the tool has read the turns of that session.
C22_HistoryToolReadsRunSession ==
    [][(acts' = acts + 1 /\ state.agent_outcome.type = "action"
          /\ state.agent_outcome.tool = "get_conversation_history"
          /\ session.conversation_history # <<>>) =>
            /\ pc' = "reason"
            /\ state'.intermediate_steps[Len(state'.intermediate_steps)].observation
                   # NoHistoryMessage]_vars

\* C23 (as claimed): at the start of every Reasoning step of every run, in
\* both loops and also after a Reflecting stage, step_counter equals the
\* number of (Action, Observation) pairs in the history.
C23_CounterIsHistoryLength ==
    (loop \in Loops /\ pc = "reason") => state.step_counter = Len(state.intermediate_steps)

\* C24 (as claimed): every Act transition that completes appends exactly one
\* (Action, Observation) pair to the history and adds exactly 1 to
\* step_counter, for a known and for an unknown tool alike; a Reasoning,
\* Reflecting or Finished transition changes neither the history nor
\* step_counter.
C24_OnlyActGrowsHistory ==
    [][(loop \in Loops /\ pc \in {"reason", "reflect", "act", "finish"}) =>
          IF pc = "act"
          THEN pc' # "raised" =>
                  /\ Len(state'.intermediate_steps) = Len(state.intermediate_steps) + 1
                  /\ SubSeq(state'.intermediate_steps, 1, Len(state.intermediate_steps))
                        = state.intermediate_steps
                  /\ state'.step_counter = state.step_counter + 1
          ELSE /\ state'.intermediate_steps = state.intermediate_steps
               /\ state'.step_counter = state.step_counter]_vars

\* C25: within a run the history and the reflections log are append-only:
\* across every transition the previous history is a prefix of the new one
\* and the previous reflections log is a prefix of the new one, so no entry
\* is modified, reordered or removed; session_id never changes.
C25_AppendOnly ==
    [][(loop \in Loops) =>
          (LET IsPrefix(a, b) == Len(a) <= Len(b) /\ SubSeq(b, 1, Len(a)) = a
           IN  /\ IsPrefix(state.intermediate_steps, state'.intermediate_steps)
               /\ IsPrefix(state.reflections, state'.reflections)
               /\ state'.session_id = state.session_id)]_vars

\* a conversation run whose history holds pairs of two different tools and
\* whose reflections log holds two records
C25_Witness ==
    /\ loop = "conversation"
    /\ Len(state.reflections) >= 2
    /\ \E i, j \in 1..Len(state.intermediate_steps) :
          state.intermediate_steps[i].action.tool # state.intermediate_steps[j].action.tool

\* C26: a run starts in Reasoning; the only transitions between the stages
\* are Reasoning to Finished, Reasoning to Reflecting, Reflecting to Finished,
\* Reflecting to Acting and Acting to Reasoning in the conversation loop, and
\* Reasoning to Finished, Reasoning to Acting and Acting to Reasoning in the
\* extraction loop, which is never in Reflecting; Finished is followed by no
\* stage (the graph ends), and a stage that raises ends the run.
C26_OnlyTheseTransitions ==
    /\ [](loop \in Loops => (supersteps = 0 => pc = "reason"))
    /\ [](loop = "extraction" => pc # "reflect")
    /\ [][(loop \in Loops) =>
            LET Stages == {"reason", "reflect", "act", "finish"}
                Allowed == IF loop = "conversation"
                           THEN {<<"reason", "finish">>, <<"reason", "reflect">>,
                                 <<"reflect", "finish">>, <<"reflect", "act">>,
                                 <<"act", "reason">>}
                           ELSE {<<"reason", "finish">>, <<"reason", "act">>,
                                 <<"act", "reason">>}
            IN  (/\ (pc \in Stages /\ pc' \in Stages) => <<pc, pc'>> \in Allowed
                 /\ pc \notin Stages => pc' \notin Stages
                 /\ pc = "finish" => pc' \in {"END", "raised"})]_vars

\* a conversation run that has acted, has been sent from Reflecting to
\* Finished by a synthesis, and has left the graph
C26_Witness ==
    /\ loop = "conversation"
    /\ pc = "END"
    /\ acts >= 4
    /\ evidence # <<>>

\* C27 (as claimed): once a Reasoning step has completed with step_counter
\* equal to the budget of the loop, the outcome is the canned apology
\* FinalAnswer and the run finishes by returning the apology, also when
\* that Reasoning step gave a FinalAnswer of its own.
C27_BudgetOverwritesOutcome ==
    (loop \in Loops /\ visitedFinish /\ state.step_counter = Budget(loop)) =>
        /\ state.agent_outcome = MaxStepsFinish(loop)
        /\ pc # "raised"
        /\ pc = "returned" => output = MaxStepsFinish(loop).output

\* C28 (as claimed): a Reflecting entry with a FinalAnswer as outcome, or
\* with step_counter < 2, or with fewer than 2 pairs in the history, is a
\* no-op: no LLM call is made, no reflection is recorded, and the outcome,
\* the working input, the history and step_counter are left as they were.
C28_ReflectNoOp ==
    [][(/\ loop = "conversation" /\ pc = "reflect" /\ supersteps' = supersteps + 1
        /\ \/ state.agent_outcome.type = "finish"
           \/ state.step_counter < 2
           \/ Len(state.intermediate_steps) < 2) =>
          /\ llmCalls' = llmCalls
          /\ state'.reflections = state.reflections
          /\ state'.agent_outcome = state.agent_outcome
          /\ state'.input = state.input
          /\ state'.intermediate_steps = state.intermediate_steps
          /\ state'.step_counter = state.step_counter]_vars

\* C29: in a Reflecting entry that is not a no-op, a LoopDetection
\* reflection is recorded if and only if the last 2 actions of the run name
\* the same tool; in that case exactly one LoopDetection record is appended,
\* its step is the current step_counter, and exactly one LLM call is made
\* for its critique: the LLM calls of the entry are that one, one more if
\* the entry synthesizes an answer and one more if it records an efficiency
\* reflection.
C29_LoopDetection ==
    [][(/\ loop = "conversation" /\ pc = "reflect" /\ supersteps' = supersteps + 1
        /\ pc' # "raised"
        /\ state.agent_outcome.type # "finish"
        /\ state.step_counter >= 2
        /\ Len(state.intermediate_steps) >= 2) =>
          (LET n == Len(actLog)
               same == actLog[n].action.tool = actLog[n - 1].action.tool
               new == SubSeq(state'.reflections, Len(state.reflections) + 1,
                             Len(state'.reflections))
               loops == SelectSeq(new, LAMBDA r : r.type = "loop_detection")
               others == SelectSeq(new, LAMBDA r : r.type # "loop_detection")
           IN  /\ SubSeq(state'.reflections, 1, Len(state.reflections)) = state.reflections
               /\ (Len(loops) > 0) <=> same
               /\ same => /\ Len(loops) = 1
                          /\ loops[1].step = state.step_counter
                          /\ llmCalls' = llmCalls + 1 + Len(others)
                                + (IF state'.agent_outcome.type = "finish" THEN 1 ELSE 0)
               /\ ~same => llmCalls' = llmCalls + Len(others))]_vars

\* a Reflecting entry at step 6 has recorded a LoopDetection and an
\* efficiency reflection without synthesizing, and an earlier entry has
\* recorded nothing although the window named one tool twice
C29_Witness ==
    /\ loop = "conversation" /\ pc = "act" /\ state.step_counter = 6
    /\ Len(state.reflections) >= 2
    /\ state.reflections[Len(state.reflections)].type = "efficiency"
    /\ state.reflections[Len(state.reflections) - 1].type = "loop_detection"
    /\ state.reflections[Len(state.reflections) - 1].step = 6
    /\ actLog[1].action.tool = actLog[3].action.tool
    /\ actLog[2].action.tool # actLog[3].action.tool
    /\ \A i \in 1..Len(state.reflections) : state.reflections[i].step # 3

\* C30: a Reflecting entry of the conversation loop that does not raise is
\* followed by Finished if and only if step_counter > 3 and the last 3
\* actions of the run name the same tool; the outcome is then the
\* synthesized FinalAnswer; in every other case it is followed by Acting.
C30_ReflectToFinished ==
    [][(/\ loop = "conversation" /\ pc = "reflect" /\ supersteps' = supersteps + 1
        /\ pc' # "raised") =>
          (LET n == Len(actLog)
               window == {actLog[i].action.tool : i \in {j \in 1..n : j > n - 3}}
               all_same == state.step_counter > 3 /\ Cardinality(window) = 1
           IN  /\ pc' = "finish" <=> all_same
               /\ all_same => state'.agent_outcome = AgentFinish(SynthAnswer, LogSynth)
               /\ ~all_same => pc' = "act" /\ state'.agent_outcome = state.agent_outcome)]_vars

\* a Reflecting entry at step 4 whose window named two tools went on to
\* Acting, and the entry at step 5 ended the run with the synthesis
C30_Witness ==
    /\ loop = "conversation" /\ pc = "finish"
    /\ state.agent_outcome = AgentFinish(SynthAnswer, LogSynth)
    /\ state.step_counter = 5
    /\ actLog[2].action.tool # actLog[3].action.tool

\* C31: in a Reflecting entry with step_counter > 5 whose outcome is not a
\* FinalAnswer after the repetition check, whether that check fired or not,
\* exactly one further LLM call is made, exactly one Efficiency reflection
\* with step = step_counter is appended, last, and the working input becomes
\* a text that has the critique and the three strategy hints, in this order,
\* before the previous input text; with step_counter <= 5, or after a
\* synthesis, no LLM call beyond those of the repetition check is made, no
\* Efficiency reflection is appended and the working input is unchanged.
C31_EfficiencyCheck ==
    [][(/\ loop = "conversation" /\ pc = "reflect" /\ supersteps' = supersteps + 1
        /\ pc' # "raised") =>
          (LET new == SubSeq(state'.reflections, Len(state.reflections) + 1,
                             Len(state'.reflections))
               eff == SelectSeq(new, LAMBDA r : r.type = "efficiency")
               loops == SelectSeq(new, LAMBDA r : r.type = "loop_detection")
               synthesized == state'.agent_outcome.type = "finish"
               k == Len(state'.input) - Len(state.input)
           IN  IF state.step_counter > 5 /\ ~synthesized
               THEN /\ llmCalls' = llmCalls + Len(loops) + 1
                    /\ Len(eff) = 1
                    /\ eff[1].step = state.step_counter
                    /\ new[Len(new)] = eff[1]
                    /\ k > 0
                    /\ SubSeq(state'.input, k + 1, Len(state'.input)) = state.input
                    /\ \E a, b, c, d \in 1..k :
                          /\ a < b /\ b < c /\ c < d
                          /\ SubSeq(state'.input, a, a + Len(Critique) - 1) = Critique
                          /\ state'.input[b] = "1. Answer directly from existing information"
                          /\ state'.input[c] = "2. Use a different tool that might be more effective"
                          /\ state'.input[d] = "3. Break down the problem differently"
               ELSE /\ llmCalls' = llmCalls + Len(loops) + (IF synthesized THEN 1 ELSE 0)
                    /\ Len(eff) = 0
                    /\ state'.input = state.input)]_vars

\* the Reflecting entry at step 6 has recorded an Efficiency reflection and
\* rewritten the input without a LoopDetection of that step
C31_Witness ==
    /\ loop = "conversation" /\ pc = "act" /\ state.step_counter = 6
    /\ state.reflections # <<>>
    /\ state.reflections[Len(state.reflections)].type = "efficiency"
    /\ \A i \in 1..Len(state.reflections) :
          state.reflections[i].type = "loop_detection" => state.reflections[i].step # 6
    /\ state.input = EfficiencyInput(Critique, _enhance_with_memory(query, session))

\* C32: the working input changes only by an Efficiency rewrite of the
\* Reflector.  Reasoning, Acting and Finished leave it as it is, the
\* extraction loop never changes it, a Reflecting entry changes it only
\* together with an Efficiency reflection, every Reasoning step is given the
\* working input of its entry, and a rewrite has been given to no Reasoning
\* step before the next one.
C32_WorkingInputIsFixed ==
    /\ [][(loop \in Loops /\ (pc # "reflect" \/ loop = "extraction")) =>
             state'.input = state.input]_vars
    /\ [][(loop \in Loops /\ pc = "reflect" /\ state'.input # state.input) =>
             /\ Len(state'.reflections) > Len(state.reflections)
             /\ state'.reflections[Len(state'.reflections)].type = "efficiency"
             /\ llmInput' = state.input
             /\ pc' = "act"]_vars
    /\ [][(loop \in Loops /\ pc = "reason" /\ llmCalls' = llmCalls + 1) =>
             llmInput' = state.input]_vars
    /\ [](loop \in Loops /\ pc = "act" /\ llmInput # state.input =>
             /\ state.reflections # <<>>
             /\ state.reflections[Len(state.reflections)].type = "efficiency"
             /\ state.reflections[Len(state.reflections)].step = state.step_counter)

\* the Reasoning step that followed the rewrite of step 6 has been given
\* the rewritten input
C32_Witness ==
    /\ loop = "conversation" /\ pc = "reflect" /\ state.step_counter = 7
    /\ llmInput = state.input
    /\ state.input = EfficiencyInput(Critique, <<"hello">>)

\* C33 (as claimed): the evidence given to the synthesis LLM call holds
\* exactly one {tool, result} entry per (Action, Observation) pair that the
\* Acts of the run have appended, in their order, each result cut to its
\* first 1000 characters, and the response of the call is the text of the
\* synthesized FinalAnswer.
C33_EvidenceIsHistory ==
    (loop = "conversation" /\ evidence # <<>>) =>
        /\ evidence = [i \in 1..Len(actLog) |->
                          [tool |-> actLog[i].action.tool,
                           result |-> Truncate1000(actLog[i].observation)]]
        /\ state.agent_outcome.type = "finish"
        /\ state.agent_outcome.output = SynthAnswer

\* C34 (as claimed): after a parse failure, in both loops, the recovered
\* answer is the whole text that follows the first `Final Answer:` label of
\* the raw text if there is such a label; otherwise the raw text without its
\* reasoning, action and observation label segments, which is the text
\* before the first label; and the fixed apology if the chosen text is empty.
C34_RecoveryOrder ==
    (loop \in Loops /\ lastLLM = "unparsed" /\ pc = "finish") =>
        (LET raw == UnparsedText(lastError)
             finals == Positions(raw, {LFinal})
             labels == Positions(raw, Labels)
             chosen == IF finals # {} THEN Strip(SubSeq(raw, Min(finals) + 1, Len(raw)))
                       ELSE IF labels # {} THEN Strip(SubSeq(raw, 1, Min(labels) - 1))
                       ELSE raw
         IN  state.agent_outcome.output = (IF chosen = <<>> THEN ApologyParse ELSE chosen))

\* C35 (as claimed): in every run that has reached Finished, the reason node
\* has been executed once more than there were Act transitions; a run that
\* has exhausted its budget B has called the reasoning LLM B + 1 times and
\* has discarded the result of the last call: its outcome is the apology.
C35_OneMoreReasoning ==
    (loop \in Loops /\ visitedFinish) =>
        /\ reasonCalls = acts + 1
        /\ state.step_counter = Budget(loop) =>
              /\ reasonCalls = Budget(loop) + 1
              /\ state.agent_outcome = MaxStepsFinish(loop)

\* C36: in a run of the conversation loop in which every reasoning call has
\* proposed an action and every action has named the same tool, there are
\* never more than 4 Act transitions, the Reflecting entry after the fourth
\* goes to Finished (or fails), and the run that has reached Finished has
\* made exactly 4, has recorded LoopDetection reflections at steps 2, 3 and
\* 4 and no other, and has the synthesized FinalAnswer as its outcome, not
\* the apology of the exhausted budget.
C36_SameToolEndsAtFour ==
    /\ [](/\ loop = "conversation" /\ lastLLM = "action" /\ pc # "raised"
          /\ \A i \in 1..Len(actLog) : actLog[i].action.tool = actLog[1].action.tool
          => /\ acts <= 4
             /\ state.agent_outcome # MaxStepsFinish(loop)
             /\ pc \in {"finish", "END", "returned"} =>
                   /\ acts = 4
                   /\ state.agent_outcome = AgentFinish(SynthAnswer, LogSynth)
                   /\ [i \in 1..Len(state.reflections) |-> state.reflections[i].step]
                         = <<2, 3, 4>>
                   /\ \A i \in 1..Len(state.reflections) :
                         state.reflections[i].type = "loop_detection")
    /\ [][(/\ loop = "conversation" /\ pc = "reflect" /\ acts = 4
           /\ state.agent_outcome.type = "action"
           /\ \A i \in 1..Len(actLog) : actLog[i].action.tool = actLog[1].action.tool)
          => pc' \in {"finish", "raised"}]_vars

\* such a run has returned the synthesized answer
C36_Witness ==
    /\ loop = "conversation" /\ pc = "returned" /\ lastLLM = "action"
    /\ acts = 4 /\ Len(actLog) = 4
    /\ \A i \in 1..4 : actLog[i].action.tool = actLog[1].action.tool
    /\ output = SynthAnswer
    /\ Len(state.reflections) = 3

\* C37: a run that ends by a propagated failure (a tool that raises in Act,
\* an LLM error in Reasoning, in Reflecting or in the synthesis, or any other
\* exception that leaves app.invoke) appends no conversation turn and saves
\* nothing: the step that fails leaves the conversation history and the
\* session file as they were, no turn of this run exists, no file has been
\* written, and no step follows the failure.
C37_FailureWritesNothing ==
    /\ [](loop \in Loops /\ pc = "raised" => allTurns = <<>> /\ saved = NoFile)
    /\ [][(loop \in Loops /\ pc' = "raised") =>
             /\ session'.conversation_history = session.conversation_history
             /\ saved' = saved /\ allTurns' = allTurns]_vars
    /\ [][(loop \in Loops) => pc # "raised"]_vars

\* a conversation run on a session with an earlier turn has failed in the LLM
\* call of the synthesis, after four Acts and three critiques
C37_Witness ==
    /\ loop = "conversation" /\ pc = "raised" /\ err = "LLMError"
    /\ acts = 4 /\ reasonCalls = 5 /\ llmCalls = reasonCalls + 4
    /\ session.conversation_history = <<PriorTurn>>

\* C38: the write-back of a conversation run appends one turn whose query is
\* the query process() was called with and whose response is the answer
\* returned, whatever the working input has become; so every turn of the
\* session holds a caller's query, never a text with injected context or a
\* critique.
C38_TurnStoresQuery ==
    /\ [][(loop = "conversation" /\ pc = "END" /\ pc' = "returned") =>
             (LET h == session'.conversation_history
              IN  /\ h = Append(session.conversation_history, h[Len(h)])
                  /\ h[Len(h)].query = query
                  /\ h[Len(h)].response = output')]_vars
    /\ [](loop = "conversation" =>
             \A i \in 1..Len(session.conversation_history) :
                 session.conversation_history[i].query \in {query, PriorTurn.query})

\* a run whose working input was first the query with the context of an
\* earlier turn and then rewritten by an Efficiency reflection has returned
C38_Witness ==
    /\ loop = "conversation" /\ pc = "returned"
    /\ Len(session.conversation_history) = 2
    /\ \E i \in 1..Len(state.reflections) : state.reflections[i].type = "efficiency"
    /\ state.input # query
    /\ \E i \in 1..Len(state.input) : state.input[i] = "Context from memory:"
    /\ session.conversation_history[2].query = query

\* C39 (as claimed): for the git-extraction tool of the extraction loop and
\* a text input that is only a repository URL, the normalizer returns the
\* URL as git_url and the empty list as extensions.
C39_UrlOnlyHasNoExtensions ==
    (/\ nrm.phase = "out" /\ nrm.loop = "extraction"
     /\ nrm.tool_name = "extract_git_content"
     /\ nrm.tool_input.k = "str"
     /\ Len(nrm.tool_input.toks) = 1
     /\ nrm.tool_input.toks[1] \in UrlTokens) =>
        /\ ~nrm.result.raised
        /\ nrm.result.value.k = "dict"
        /\ nrm.result.value.f["git_url"] = PyStr(nrm.tool_input.toks)
        /\ nrm.result.value.f["extensions"] = PyList(<<>>)

===========================================================================
